---- MODULE Spec2Model ----
(***************************************************************************)
(* Grid-world multi-agent simulation: the environment (GridWorld), the     *)
(* base agent bookkeeping (BaseAgent), the three agent variants and the    *)
(* per-step driver loop (InteractiveSimulation.next_step).                 *)
(*                                                                         *)
(* Positions are pairs <<x, y>>.  Agent ids are 1..N in the order of the   *)
(* configuration's agent list, which is the iteration order of the driver. *)
(* random.choice is a nondeterministic choice among the listed options.    *)
(* action_history and decision_times (write-only logs) are not modelled.   *)
(* A run is a sequence of next_step calls; of the history kept for undo    *)
(* only the entry save_state stored last is modelled; restore_state,       *)
(* prev_step and the rendering are left out.                               *)
(***************************************************************************)
EXTENDS Integers, Sequences, FiniteSets, TLC

VARIABLES
    grid_size,          \* GridWorld.grid_size  <<width, height>>
    walls,              \* GridWorld.walls
    goals,              \* GridWorld.goals
    hazards,            \* GridWorld.hazards
    resources,          \* GridWorld.resources
    agents,             \* GridWorld.agents: id -> [position, energy, carrying, type]
    step_count,         \* GridWorld.step_count
    agent_instances,    \* the agent objects: id -> BaseAgent fields
    current_step,       \* InteractiveSimulation.current_step
    simulation_ended,   \* InteractiveSimulation.simulation_ended
    idx,                \* next_step: number of agents already handled in the running step
    active_agents,      \* next_step: local counter of agents that acted in the running step
    perception,         \* the Perception most recently returned by perceive
    returned,           \* the value most recently returned by execute_action or find_path
    call,               \* the call most recently made: method, agent id, action, deciding rule (find_path: start, goal; _select_best_goal: the goal selected)
    history,            \* InteractiveSimulation.history[-1]: the environment as save_state stored it last
    config              \* the configuration load_config read

vars == <<grid_size, walls, goals, hazards, resources, agents, step_count, agent_instances, current_step, simulation_ended, idx, active_agents, perception, returned, call, history, config>>

envStatic == <<grid_size, walls, goals, hazards, config>>

driverVars == <<current_step, simulation_ended, idx, active_agents>>

-----------------------------------------------------------------------------
(* Bounds of the model *)

\* largest initial energy a configuration gives an agent
MaxEnergy == 4

\* number of apply_action / execute_action calls in a run of the direct-call specification
MaxCalls == 3

\* number of find_path calls in a run of the path-search specification
MaxSearches == 2

-----------------------------------------------------------------------------
(* data_structures.py *)

PERCEPTION_RANGE == 2

max_steps == 100

NONE == "NONE"

MOVE_NORTH == "MOVE_NORTH"

MOVE_SOUTH == "MOVE_SOUTH"

MOVE_EAST == "MOVE_EAST"

MOVE_WEST == "MOVE_WEST"

PICKUP == "PICKUP"

DROP == "DROP"

WAIT == "WAIT"

COMMUNICATE == "COMMUNICATE"

Action == {MOVE_NORTH, MOVE_SOUTH, MOVE_EAST, MOVE_WEST, PICKUP, DROP, WAIT, COMMUNICATE}

EMPTY == "EMPTY"

WALL == "WALL"

GOAL == "GOAL"

RESOURCE == "RESOURCE"

HAZARD == "HAZARD"

CellType == {EMPTY, WALL, GOAL, RESOURCE, HAZARD}

\* the dict DIRECTION_MAPPINGS; Directions is its iteration (insertion) order
DIRECTION_MAPPINGS == (MOVE_NORTH :> <<0, -1>>) @@ (MOVE_SOUTH :> <<0, 1>>) @@ (MOVE_EAST :> <<1, 0>>) @@ (MOVE_WEST :> <<-1, 0>>)

Directions == <<MOVE_NORTH, MOVE_SOUTH, MOVE_EAST, MOVE_WEST>>

Abs(n) == IF n < 0 THEN -n ELSE n

Max(a, b) == IF a >= b THEN a ELSE b

Min(a, b) == IF a <= b THEN a ELSE b

Position(x, y) == <<x, y>>

distance_to(p, q) == Abs(p[1] - q[1]) + Abs(p[2] - q[2])

move(p, dx, dy) == Position(p[1] + dx, p[2] + dy)

\* Position.__lt__: order by (x, y)
PosLess(p, q) == p[1] < q[1] \/ (p[1] = q[1] /\ p[2] < q[2])

InSeq(x, s) == \E i \in DOMAIN s : s[i] = x

\* Perception.get_cells_of_type, as the set of its list's elements
get_cells_of_type(p, cell_type) == {pos \in DOMAIN p.visible_cells : p.visible_cells[pos] = cell_type}

\* visible_cells.get(pos) == cell_type
CellIs(p, pos, cell_type) == pos \in DOMAIN p.visible_cells /\ p.visible_cells[pos] = cell_type

\* min(list, key=distance) over a list in visible_cells order (x ascending, then
\* y ascending): the first element of least distance
ClosestVisible(S, from) == CHOOSE t \in S : \A u \in S : distance_to(from, t) < distance_to(from, u) \/ (distance_to(from, t) = distance_to(from, u) /\ (t = u \/ PosLess(t, u)))

\* no call made yet
NoCall == [method |-> NONE, agent |-> 0, action |-> NONE, reason |-> NONE]

NoPerception == [current_position |-> <<0, 0>>, visible_cells |-> <<>>, visible_agents |-> <<>>, energy_level |-> 0, carrying_resource |-> FALSE, messages |-> <<>>]

-----------------------------------------------------------------------------
(* base_agent.py *)

BaseAgent(kind, position, initial_energy) == [kind |-> kind, position |-> position, energy |-> initial_energy, carrying_resource |-> FALSE, last_action |-> NONE, actions_taken |-> 0, resources_collected |-> 0, goals_reached |-> 0, energy_consumed |-> 0, collisions |-> 0]

\* a cost table that charges WAIT like every other action
_get_action_energy_cost_flat(action) == 1

_get_action_energy_cost(action) == IF action \in {MOVE_NORTH, MOVE_SOUTH, MOVE_EAST, MOVE_WEST} THEN 1 ELSE IF action \in {PICKUP, DROP} THEN 1 ELSE IF action = WAIT THEN 0 ELSE IF action = COMMUNICATE THEN 1 ELSE 1

\* an energy deduction without the floor at 0
execute_action_unfloored(agent, action) == [agent EXCEPT !.actions_taken = @ + 1, !.last_action = action, !.energy = @ - _get_action_energy_cost(action), !.energy_consumed = @ + _get_action_energy_cost(action)]

\* the agent after execute_action(action)
execute_action(agent, action) == [agent EXCEPT !.actions_taken = @ + 1, !.last_action = action, !.energy = Max(0, @ - _get_action_energy_cost(action)), !.energy_consumed = @ + _get_action_energy_cost(action)]

\* the value execute_action(action) returns
execute_action_result(agent, action) == execute_action(agent, action).energy > 0

update_position(agent, new_position) == [agent EXCEPT !.position = new_position]

\* a pickup that forgets the statistics update
pickup_resource_uncounted(agent) == IF ~agent.carrying_resource THEN [agent EXCEPT !.carrying_resource = TRUE] ELSE agent

pickup_resource(agent) == IF ~agent.carrying_resource THEN [agent EXCEPT !.carrying_resource = TRUE, !.resources_collected = @ + 1] ELSE agent

\* a delivery that forgets the statistics update
reach_goal_uncounted(agent) == [agent EXCEPT !.carrying_resource = FALSE]

\* a goal credit that leaves the cargo in place
reach_goal_keeps_cargo(agent) == [agent EXCEPT !.goals_reached = @ + 1]

reach_goal(agent) == [agent EXCEPT !.goals_reached = @ + 1, !.carrying_resource = FALSE]

record_collision(agent) == [agent EXCEPT !.collisions = @ + 1]

\* an activity test that lets an exhausted agent through
is_active_nonnegative(agent) == agent.energy >= 0

is_active(agent) == agent.energy > 0

-----------------------------------------------------------------------------
(* environment.py *)

\* bounds that are one column and one row too wide
_valid_positions_inclusive == {Position(x, y) : x \in 0..grid_size[1], y \in 0..grid_size[2]}

_valid_positions == {Position(x, y) : x \in 0..(grid_size[1] - 1), y \in 0..(grid_size[2] - 1)}

\* the classification of one cell in get_agent_perception
ClassifyCell(pos, res) == IF pos \in goals THEN GOAL ELSE IF pos \in res THEN RESOURCE ELSE IF pos \in hazards THEN HAZARD ELSE IF pos \in walls THEN WALL ELSE EMPTY

\* a window that is not clipped to the grid
VisibleWindow_unclipped(current_pos) == {Position(x, y) : x \in (current_pos[1] - PERCEPTION_RANGE)..(current_pos[1] + PERCEPTION_RANGE), y \in (current_pos[2] - PERCEPTION_RANGE)..(current_pos[2] + PERCEPTION_RANGE)}

VisibleWindow(current_pos) == {Position(x, y) : x \in Max(0, current_pos[1] - PERCEPTION_RANGE)..Min(grid_size[1] - 1, current_pos[1] + PERCEPTION_RANGE), y \in Max(0, current_pos[2] - PERCEPTION_RANGE)..Min(grid_size[2] - 1, current_pos[2] + PERCEPTION_RANGE)}

\* ids of the other agents inside the window, in the order of the agents dict
VisibleOthers(ags, a) == SelectSeq([i \in 1..Len(ags) |-> i], LAMBDA o : o # a /\ Abs(ags[a].position[1] - ags[o].position[1]) <= PERCEPTION_RANGE /\ Abs(ags[a].position[2] - ags[o].position[2]) <= PERCEPTION_RANGE)

get_agent_perception(ags, res, a) == [current_position |-> ags[a].position, visible_cells |-> [pos \in VisibleWindow(ags[a].position) |-> ClassifyCell(pos, res)], visible_agents |-> [k \in 1..Len(VisibleOthers(ags, a)) |-> ags[VisibleOthers(ags, a)[k]].position], energy_level |-> ags[a].energy, carrying_resource |-> ags[a].carrying, messages |-> <<>>]

\* whether apply_action takes its early return (movement blocked)
Blocked(agent, action) == action \in DOMAIN DIRECTION_MAPPINGS /\ LET candidate_pos == move(agent.position, DIRECTION_MAPPINGS[action][1], DIRECTION_MAPPINGS[action][2]) IN candidate_pos \notin _valid_positions \/ candidate_pos \in walls

\* an action application whose PICKUP leaves the resource on its cell
apply_action_leaving(agent, ags, res, sc, ret, a, action) ==
    LET current_pos == agent.position
    IN  IF action \in DOMAIN DIRECTION_MAPPINGS
        THEN LET candidate_pos == move(current_pos, DIRECTION_MAPPINGS[action][1], DIRECTION_MAPPINGS[action][2])
             IN  IF candidate_pos \notin _valid_positions \/ candidate_pos \in walls
                 THEN [agent |-> record_collision(agent), agents |-> ags, resources |-> res, step_count |-> sc, returned |-> ret]
                 ELSE [agent |-> execute_action(update_position(agent, candidate_pos), action), agents |-> [ags EXCEPT ![a].position = candidate_pos], resources |-> res, step_count |-> sc + 1, returned |-> execute_action_result(update_position(agent, candidate_pos), action)]
        ELSE IF action = PICKUP /\ current_pos \in res /\ ~agent.carrying_resource
        THEN [agent |-> execute_action(pickup_resource(agent), action), agents |-> ags, resources |-> res, step_count |-> sc + 1, returned |-> execute_action_result(pickup_resource(agent), action)]
        ELSE IF action = DROP /\ agent.carrying_resource /\ current_pos \in goals
        THEN [agent |-> execute_action(reach_goal(agent), action), agents |-> ags, resources |-> res, step_count |-> sc + 1, returned |-> execute_action_result(reach_goal(agent), action)]
        ELSE [agent |-> execute_action(agent, action), agents |-> ags, resources |-> res, step_count |-> sc + 1, returned |-> execute_action_result(agent, action)]

\* apply_action(agent, action) on agent object `agent` with id a: the new agent
\* object, agents dict, resources set, step_count and the value execute_action
\* returned (ret, unchanged when it was not called)
apply_action(agent, ags, res, sc, ret, a, action) ==
    LET current_pos == agent.position
    IN  IF action \in DOMAIN DIRECTION_MAPPINGS
        THEN LET candidate_pos == move(current_pos, DIRECTION_MAPPINGS[action][1], DIRECTION_MAPPINGS[action][2])
             IN  IF candidate_pos \notin _valid_positions \/ candidate_pos \in walls
                 THEN [agent |-> record_collision(agent), agents |-> ags, resources |-> res, step_count |-> sc, returned |-> ret]
                 ELSE [agent |-> execute_action(update_position(agent, candidate_pos), action), agents |-> [ags EXCEPT ![a].position = candidate_pos], resources |-> res, step_count |-> sc + 1, returned |-> execute_action_result(update_position(agent, candidate_pos), action)]
        ELSE IF action = PICKUP /\ current_pos \in res /\ ~agent.carrying_resource
        THEN [agent |-> execute_action(pickup_resource(agent), action), agents |-> ags, resources |-> res \ {current_pos}, step_count |-> sc + 1, returned |-> execute_action_result(pickup_resource(agent), action)]
        ELSE IF action = DROP /\ agent.carrying_resource /\ current_pos \in goals
        THEN [agent |-> execute_action(reach_goal(agent), action), agents |-> ags, resources |-> res, step_count |-> sc + 1, returned |-> execute_action_result(reach_goal(agent), action)]
        ELSE [agent |-> execute_action(agent, action), agents |-> ags, resources |-> res, step_count |-> sc + 1, returned |-> execute_action_result(agent, action)]

-----------------------------------------------------------------------------
(* Agent objects.  Every agent record carries the fields of all three classes *)
(* so that the agent list is homogeneous; a class leaves the fields it does   *)
(* not declare at these initial values.                                       *)

NoGoal == [goal_type |-> NONE, target_position |-> <<0, 0>>, base_utility |-> 0, distance |-> 0]

NoPlanningStats == [plans_generated |-> 0, plans_completed |-> 0, plans_abandoned |-> 0, replanning_events |-> 0, path_finding_calls |-> 0, path_finding_failures |-> 0]

SubclassFields(visited) == [visited_positions |-> visited, known_resources |-> {}, known_goals |-> {}, known_hazards |-> {}, known_walls |-> {}, known_empty |-> {}, current_plan |-> <<>>, current_goal |-> NoGoal, plan_step_index |-> 0, planning_stats |-> NoPlanningStats]

SimpleReflexAgent(position, initial_energy) == BaseAgent("simple", position, initial_energy) @@ SubclassFields({})

ModelBasedReflexAgent(position, initial_energy) == BaseAgent("module", position, initial_energy) @@ SubclassFields({position})

GoalBasedAgent(position, initial_energy) == BaseAgent("goal", position, initial_energy) @@ SubclassFields({position})

\* the match statement of InteractiveSimulation.__init__
CreateAgent(type, position, initial_energy) == IF type = "goal" THEN GoalBasedAgent(position, initial_energy) ELSE IF type = "module" THEN ModelBasedReflexAgent(position, initial_energy) ELSE SimpleReflexAgent(position, initial_energy)

-----------------------------------------------------------------------------
(* Helpers the three agent classes define identically *)

_is_in_hazard(p) == CellIs(p, p.current_position, HAZARD)

_can_collect_resource(p) == ~p.carrying_resource /\ CellIs(p, p.current_position, RESOURCE)

_can_drop_resource(p) == CellIs(p, p.current_position, GOAL)

\* `cell_type and cell_type not in [WALL, HAZARD]` and not occupied by a visible agent
SafeCell(p, new_pos) == new_pos \in DOMAIN p.visible_cells /\ p.visible_cells[new_pos] \notin {WALL, HAZARD} /\ ~InSeq(new_pos, p.visible_agents)

Neighbour(pos, action) == move(pos, DIRECTION_MAPPINGS[action][1], DIRECTION_MAPPINGS[action][2])

\* the first index of Directions, among cand, of least cost: a loop over
\* DIRECTION_MAPPINGS that keeps the first strictly smaller value
FirstBest(cand, cost) == IF cand = {} THEN NONE ELSE Directions[CHOOSE i \in cand : \A j \in cand : cost[i] < cost[j] \/ (cost[i] = cost[j] /\ i <= j)]

Decision(action, reason, agent) == [action |-> action, reason |-> reason, agent |-> agent]

-----------------------------------------------------------------------------
(* simple_reflex_agent.py *)

\* a perceive that hands on the environment's perception as it is
SimpleReflexAgent_perceive_mirror(agent, ags, res, a) == [perception |-> get_agent_perception(ags, res, a), agent |-> agent]

\* perceive: the environment's perception with carrying_resource overwritten
SimpleReflexAgent_perceive(agent, ags, res, a) == [perception |-> [get_agent_perception(ags, res, a) EXCEPT !.carrying_resource = agent.carrying_resource], agent |-> agent]

\* a hazard escape that does not look at where the visible agents stand
_avoid_hazard_occupied(p) == LET safe_moves == {action \in DOMAIN DIRECTION_MAPPINGS : CellIs(p, Neighbour(p.current_position, action), EMPTY) \/ CellIs(p, Neighbour(p.current_position, action), GOAL) \/ CellIs(p, Neighbour(p.current_position, action), RESOURCE)} IN IF safe_moves # {} THEN safe_moves ELSE {WAIT}

_avoid_hazard(p) == LET safe_moves == {action \in DOMAIN DIRECTION_MAPPINGS : SafeCell(p, Neighbour(p.current_position, action))} IN IF safe_moves # {} THEN safe_moves ELSE {WAIT}

_random_exploration(p) == LET valid_moves == {action \in DOMAIN DIRECTION_MAPPINGS : SafeCell(p, Neighbour(p.current_position, action))} IN IF valid_moves # {} THEN valid_moves ELSE {WAIT}

\* a move selection that takes the first safe direction whatever its distance
_get_move_toward_first_safe(from_pos, to_pos, p) == FirstBest({i \in 1..4 : SafeCell(p, Neighbour(from_pos, Directions[i]))}, [i \in 1..4 |-> 0])

_get_move_toward(from_pos, to_pos, p) == FirstBest({i \in 1..4 : SafeCell(p, Neighbour(from_pos, Directions[i]))}, [i \in 1..4 |-> distance_to(Neighbour(from_pos, Directions[i]), to_pos)])

\* a goal seeking that waits when no goal is in sight
_seek_goal_waiting(p) ==
    LET goal_positions == get_cells_of_type(p, GOAL)
    IN  IF goal_positions = {} THEN WAIT
        ELSE LET move_action == _get_move_toward(p.current_position, ClosestVisible(goal_positions, p.current_position), p)
             IN  IF move_action # NONE THEN move_action ELSE WAIT

_seek_goal(p) ==
    LET goal_positions == get_cells_of_type(p, GOAL)
    IN  IF goal_positions = {} THEN NONE
        ELSE LET move_action == _get_move_toward(p.current_position, ClosestVisible(goal_positions, p.current_position), p)
             IN  IF move_action # NONE THEN move_action ELSE WAIT

_pursue_resource(p) ==
    LET resource_positions == get_cells_of_type(p, RESOURCE)
    IN  IF resource_positions = {} THEN NONE
        ELSE LET move_action == _get_move_toward(p.current_position, ClosestVisible(resource_positions, p.current_position), p)
             IN  IF move_action # NONE THEN move_action ELSE WAIT

\* decide_action: the set of (action, rule, agent afterwards) it can return
SimpleReflexAgent_decide_action(agent, p) ==
    IF _is_in_hazard(p) THEN {Decision(action, "hazard_avoidance", agent) : action \in _avoid_hazard(p)}
    ELSE IF _can_collect_resource(p) THEN {Decision(PICKUP, "resource_collection", agent)}
    ELSE IF p.carrying_resource /\ _can_drop_resource(p) THEN {Decision(DROP, "goal_seeking", agent)}
    ELSE IF p.carrying_resource /\ _seek_goal(p) # NONE THEN {Decision(_seek_goal(p), "goal_seeking", agent)}
    ELSE IF ~p.carrying_resource /\ _pursue_resource(p) # NONE THEN {Decision(_pursue_resource(p), "resource_pursuit", agent)}
    ELSE {Decision(action, "random_exploration", agent) : action \in _random_exploration(p)}

-----------------------------------------------------------------------------
(* model_based_reflex_agent.py *)
(* min(...) over one of the agent's knowledge sets returns the first element *)
(* of least distance in the set's iteration order, which the code does not   *)
(* fix: any element of least distance.                                       *)

\* a world-model update that never forgets a resource
update_world_model_keeping(agent, p) == [agent EXCEPT !.visited_positions = @ \cup {p.current_position}, !.known_walls = @ \cup get_cells_of_type(p, WALL), !.known_resources = @ \cup get_cells_of_type(p, RESOURCE), !.known_goals = @ \cup get_cells_of_type(p, GOAL), !.known_hazards = @ \cup get_cells_of_type(p, HAZARD), !.known_empty = (@ \ (get_cells_of_type(p, RESOURCE) \cup get_cells_of_type(p, GOAL) \cup get_cells_of_type(p, HAZARD))) \cup get_cells_of_type(p, EMPTY)]

\* update_world_model (and the identical GoalBasedAgent.update_world_knowledge)
update_world_model(agent, p) == [agent EXCEPT !.visited_positions = @ \cup {p.current_position}, !.known_walls = @ \cup get_cells_of_type(p, WALL), !.known_resources = (@ \cup get_cells_of_type(p, RESOURCE)) \ get_cells_of_type(p, EMPTY), !.known_goals = @ \cup get_cells_of_type(p, GOAL), !.known_hazards = @ \cup get_cells_of_type(p, HAZARD), !.known_empty = (@ \ (get_cells_of_type(p, RESOURCE) \cup get_cells_of_type(p, GOAL) \cup get_cells_of_type(p, HAZARD))) \cup get_cells_of_type(p, EMPTY)]

ModelBasedReflexAgent_perceive(agent, ags, res, a) == LET pn == [get_agent_perception(ags, res, a) EXCEPT !.carrying_resource = agent.carrying_resource] IN [perception |-> pn, agent |-> update_world_model(agent, pn)]

Closest(S, from) == {t \in S : \A u \in S : distance_to(from, t) <= distance_to(from, u)}

is_valid_position(agent, p, pos) == ~(pos[1] < 0 \/ pos[2] < 0) /\ pos \notin agent.known_walls /\ ~CellIs(p, pos, WALL) /\ ~InSeq(pos, p.visible_agents)

has_safe_alternative(agent, p, from_pos, excluded_pos) == \E action \in DOMAIN DIRECTION_MAPPINGS : LET alt_pos == Neighbour(from_pos, action) IN alt_pos # excluded_pos /\ alt_pos \notin agent.known_hazards /\ is_valid_position(agent, p, alt_pos)

\* float('inf') for a known wall is never compared: a known wall is not a valid position
move_cost(agent, pos) == IF pos \in agent.known_walls THEN 1000000 ELSE IF pos \in agent.known_hazards THEN 10 ELSE IF pos \in agent.known_resources THEN 1 ELSE IF pos \in agent.known_empty \/ pos \in agent.visited_positions THEN 2 ELSE IF pos \in agent.known_goals THEN 1 ELSE 3

_get_smart_move_toward(agent, from_pos, to_pos, p) == FirstBest({i \in 1..4 : LET new_pos == Neighbour(from_pos, Directions[i]) IN is_valid_position(agent, p, new_pos) /\ ~(new_pos \in agent.known_hazards /\ has_safe_alternative(agent, p, from_pos, new_pos))}, [i \in 1..4 |-> move_cost(agent, Neighbour(from_pos, Directions[i])) + distance_to(Neighbour(from_pos, Directions[i]), to_pos)])

\* the moves (or NONE) the two-stage targeting can return: the nearest visible
\* target first, then the nearest remembered one
TargetNavigation(agent, p, visible, known) ==
    LET first == IF visible # {} THEN _get_smart_move_toward(agent, p.current_position, ClosestVisible(visible, p.current_position), p) ELSE NONE
    IN  IF first # NONE THEN {first}
        ELSE IF known # {} THEN {_get_smart_move_toward(agent, p.current_position, t, p) : t \in Closest(known, p.current_position)}
        ELSE {NONE}

_strategic_goal_navigation(agent, p) == TargetNavigation(agent, p, get_cells_of_type(p, GOAL), agent.known_goals)

_informed_resource_acquisition(agent, p) == TargetNavigation(agent, p, get_cells_of_type(p, RESOURCE), agent.known_resources)

\* an emergency response that waits for the hazard to pass
_emergency_hazard_response_waiting(agent, p) == {WAIT}

_emergency_hazard_response(agent, p) ==
    LET safe_moves == {action \in DOMAIN DIRECTION_MAPPINGS : SafeCell(p, Neighbour(p.current_position, action))}
        preferred == {action \in safe_moves : Neighbour(p.current_position, action) \notin agent.visited_positions /\ Neighbour(p.current_position, action) \notin agent.known_hazards}
    IN  IF preferred # {} THEN (IF ~p.carrying_resource THEN _informed_resource_acquisition(agent, p) ELSE _strategic_goal_navigation(agent, p))
        ELSE IF safe_moves # {} THEN safe_moves
        ELSE {WAIT}

_intelligent_exploration(agent, p) ==
    LET exploration_moves == {action \in DOMAIN DIRECTION_MAPPINGS : LET new_pos == Neighbour(p.current_position, action) IN new_pos \in DOMAIN p.visible_cells /\ p.visible_cells[new_pos] # WALL /\ ~InSeq(new_pos, p.visible_agents) /\ new_pos \notin agent.known_hazards}
        unvisited_moves == {action \in exploration_moves : Neighbour(p.current_position, action) \notin agent.visited_positions}
    IN  IF unvisited_moves # {} THEN unvisited_moves ELSE IF exploration_moves # {} THEN exploration_moves ELSE {WAIT}

\* priorities 2 to 5 of decide_action
ModelBasedLowerPriorities(agent, p) ==
    IF _can_collect_resource(p) THEN {Decision(PICKUP, "opportunistic_collection", agent)}
    ELSE IF p.carrying_resource /\ _can_drop_resource(p) THEN {Decision(DROP, "strategic_goal_completion", agent)}
    ELSE LET targeted == IF p.carrying_resource THEN _strategic_goal_navigation(agent, p) ELSE _informed_resource_acquisition(agent, p)
         IN  {Decision(action, IF p.carrying_resource THEN "strategic_goal_completion" ELSE "informed_resource_acquisition", agent) : action \in targeted \ {NONE}}
             \cup (IF NONE \in targeted THEN {Decision(action, "intelligent_exploration", agent) : action \in _intelligent_exploration(agent, p)} ELSE {})

\* the hazard energy penalty of decide_action
HazardPenalty(agent) == [agent EXCEPT !.energy = Max(0, @ - 4)]

ModelBasedReflexAgent_decide_action(agent, p) ==
    IF _is_in_hazard(p)
    THEN LET emergency == _emergency_hazard_response(HazardPenalty(agent), p)
         IN  {Decision(action, "emergency_response", HazardPenalty(agent)) : action \in emergency \ {NONE}}
             \cup (IF NONE \in emergency THEN ModelBasedLowerPriorities(HazardPenalty(agent), p) ELSE {})
    ELSE ModelBasedLowerPriorities(agent, p)

-----------------------------------------------------------------------------
(* goal_based_agent.py *)
(* A Goal carries its base utility and its distance; the distance-adjusted   *)
(* utility base_utility / (distance + 1) is compared exactly, by cross       *)
(* multiplication.  A plan step is (action, target_position); purpose and    *)
(* estimated_cost are texts and a constant.  goal_selection_stats is a       *)
(* write-only log and is not modelled.                                       *)

UTILITY_VALUES == ("resource_collection" :> 10) @@ ("resource_delivery" :> 20) @@ ("exploration" :> 1) @@ ("hazard_avoidance" :> 50)

Goal(goal_type, target_position, from) == [goal_type |-> goal_type, target_position |-> target_position, base_utility |-> UTILITY_VALUES[goal_type], distance |-> distance_to(from, target_position)]

\* g.distance_adjusted_utility >= h.distance_adjusted_utility
UtilityGE(g, h) == g.base_utility * (h.distance + 1) >= h.base_utility * (g.distance + 1)

GoalBasedAgent_perceive(agent, ags, res, a) == LET pn == [get_agent_perception(ags, res, a) EXCEPT !.carrying_resource = agent.carrying_resource] IN [perception |-> pn, agent |-> update_world_model(agent, pn)]

_manhattan_distance(pos1, pos2) == Abs(pos1[1] - pos2[1]) + Abs(pos1[2] - pos2[2])

\* an obstacle test that does not look at where the visible agents stand
_is_obstacle_unoccupied(agent, position, p) == position \in agent.known_walls \/ position \notin DOMAIN p.visible_cells \/ p.visible_cells[position] = WALL

_is_obstacle(agent, position, p) == position \in agent.known_walls \/ position \notin DOMAIN p.visible_cells \/ p.visible_cells[position] = WALL \/ InSeq(position, p.visible_agents)

\* a move cost that charges every step alike
_get_move_cost_flat(agent, to_pos, p) == 1

_get_move_cost(agent, to_pos, p) == IF to_pos \in agent.known_hazards THEN 6 ELSE IF CellIs(p, to_pos, HAZARD) THEN 6 ELSE 1

\* order of the heap entries (f_score, g_score, position)
HeapLess(e, f) == e[1] < f[1] \/ (e[1] = f[1] /\ (e[2] < f[2] \/ (e[2] = f[2] /\ PosLess(e[3], f[3]))))

\* heapq.heappop: the least entry
HeapMin(open_set) == CHOOSE e \in open_set : \A f \in open_set : e = f \/ HeapLess(e, f)

AStarNeighbours == <<<<0, 1>>, <<0, -1>>, <<1, 0>>, <<-1, 0>>>>

\* the neighbour loop of find_path, from its k-th neighbour on
RECURSIVE ExploreNeighbours(_, _, _, _, _, _)
ExploreNeighbours(agent, p, goal, current, st, k) ==
    IF k > Len(AStarNeighbours) THEN st
    ELSE LET neighbor == move(current, AStarNeighbours[k][1], AStarNeighbours[k][2])
             tentative_g == st.g_score[current] + _get_move_cost(agent, neighbor, p)
         IN  IF _is_obstacle(agent, neighbor, p) THEN ExploreNeighbours(agent, p, goal, current, st, k + 1)
             ELSE IF neighbor \notin DOMAIN st.g_score \/ tentative_g < st.g_score[neighbor]
             THEN ExploreNeighbours(agent, p, goal, current, [st EXCEPT !.came_from = (neighbor :> current) @@ @, !.g_score = (neighbor :> tentative_g) @@ @, !.open_set = @ \cup {<<tentative_g + _manhattan_distance(neighbor, goal), tentative_g, neighbor>>}], k + 1)
             ELSE ExploreNeighbours(agent, p, goal, current, st, k + 1)

\* a path reconstruction that keeps the position the walk back ends at
RECURSIVE ReconstructPath_from_start(_, _)
ReconstructPath_from_start(came_from, current) == IF current \in DOMAIN came_from THEN Append(ReconstructPath_from_start(came_from, came_from[current]), current) ELSE <<current>>

\* the path reconstruction of find_path: predecessor links walked back, reversed
RECURSIVE ReconstructPath(_, _)
ReconstructPath(came_from, current) == IF current \in DOMAIN came_from THEN Append(ReconstructPath(came_from, came_from[current]), current) ELSE <<>>

\* the while loop of find_path
RECURSIVE AStarLoop(_, _, _, _)
AStarLoop(agent, p, goal, st) ==
    IF st.open_set = {} THEN [found |-> FALSE, path |-> <<>>]
    ELSE LET e == HeapMin(st.open_set)
             current == e[3]
             popped == [st EXCEPT !.open_set = @ \ {e}]
         IN  IF current = goal THEN [found |-> TRUE, path |-> ReconstructPath(st.came_from, current)]
             ELSE IF current \in st.visited THEN AStarLoop(agent, p, goal, popped)
             ELSE AStarLoop(agent, p, goal, ExploreNeighbours(agent, p, goal, current, [popped EXCEPT !.visited = @ \cup {current}], 1))

\* a path search that does not count its failures
find_path_silent(agent, start, goal, p) ==
    LET r == AStarLoop(agent, p, goal, [open_set |-> {<<0, 0, start>>}, came_from |-> <<>>, g_score |-> (start :> 0), visited |-> {}])
    IN  [path |-> r.path, agent |-> [agent EXCEPT !.planning_stats.path_finding_calls = @ + 1]]

\* find_path: the path and the agent with its planning statistics updated
find_path(agent, start, goal, p) ==
    LET r == AStarLoop(agent, p, goal, [open_set |-> {<<0, 0, start>>}, came_from |-> <<>>, g_score |-> (start :> 0), visited |-> {}])
    IN  [path |-> r.path, agent |-> [agent EXCEPT !.planning_stats.path_finding_calls = @ + 1, !.planning_stats.path_finding_failures = IF r.found THEN @ ELSE @ + 1]]

\* the movement action whose delta is (dx, dy), or NONE
ActionOfDelta(dx, dy) == IF \E action \in DOMAIN DIRECTION_MAPPINGS : DIRECTION_MAPPINGS[action] = <<dx, dy>> THEN CHOOSE action \in DOMAIN DIRECTION_MAPPINGS : DIRECTION_MAPPINGS[action] = <<dx, dy>> ELSE NONE

PlanStep(action, target_position) == [action |-> action, target_position |-> target_position]

_convert_path_to_plan(agent, path) == SelectSeq([i \in 1..Len(path) |-> LET current_pos == IF i = 1 THEN agent.position ELSE path[i - 1] IN PlanStep(ActionOfDelta(path[i][1] - current_pos[1], path[i][2] - current_pos[2]), path[i])], LAMBDA step : step.action # NONE)

\* a plan generation that ends every plan with the last movement
_generate_plan_bare(agent, goal, p) ==
    LET fp == find_path(agent, p.current_position, goal.target_position, p)
    IN  [agent |-> fp.agent, plan |-> _convert_path_to_plan(agent, fp.path)]

\* _generate_plan with its four _plan_* methods: the plan and the agent after find_path
_generate_plan(agent, goal, p) ==
    LET fp == find_path(agent, p.current_position, goal.target_position, p)
        moves == _convert_path_to_plan(agent, fp.path)
    IN  [agent |-> fp.agent, plan |-> IF fp.path = <<>> THEN <<>> ELSE IF goal.goal_type = "resource_collection" THEN Append(moves, PlanStep(PICKUP, goal.target_position)) ELSE IF goal.goal_type = "resource_delivery" THEN Append(moves, PlanStep(DROP, goal.target_position)) ELSE moves]

\* a validity test that only asks whether steps are left
_is_plan_valid_steps_left(agent, p) == ~(agent.current_plan = <<>> \/ agent.plan_step_index >= Len(agent.current_plan))

_is_plan_valid(agent, p) ==
    IF agent.current_plan = <<>> \/ agent.plan_step_index >= Len(agent.current_plan) THEN FALSE
    ELSE IF agent.current_goal.goal_type = "resource_collection" THEN ~(agent.current_goal.target_position \in DOMAIN p.visible_cells /\ p.visible_cells[agent.current_goal.target_position] # RESOURCE /\ agent.current_goal.target_position \notin agent.known_resources)
    ELSE IF agent.current_goal.goal_type = "resource_delivery" THEN p.carrying_resource
    ELSE TRUE

\* a feasibility test that does not look at where the visible agents stand
_is_action_feasible_unoccupied(action, p) ==
    IF action \in DOMAIN DIRECTION_MAPPINGS THEN ~CellIs(p, Neighbour(p.current_position, action), WALL)
    ELSE IF action = PICKUP THEN ~(~CellIs(p, p.current_position, RESOURCE) \/ p.carrying_resource)
    ELSE IF action = DROP THEN ~(~CellIs(p, p.current_position, GOAL) \/ ~p.carrying_resource)
    ELSE TRUE

_is_action_feasible(action, p) ==
    IF action \in DOMAIN DIRECTION_MAPPINGS THEN ~(CellIs(p, Neighbour(p.current_position, action), WALL) \/ InSeq(Neighbour(p.current_position, action), p.visible_agents))
    ELSE IF action = PICKUP THEN ~(~CellIs(p, p.current_position, RESOURCE) \/ p.carrying_resource)
    ELSE IF action = DROP THEN ~(~CellIs(p, p.current_position, GOAL) \/ ~p.carrying_resource)
    ELSE TRUE

\* a plan reset that leaves the step index where it was
ClearPlan_keeping_index(agent) == [agent EXCEPT !.current_plan = <<>>, !.current_goal = NoGoal]

ClearPlan(agent) == [agent EXCEPT !.current_plan = <<>>, !.current_goal = NoGoal, !.plan_step_index = 0]

\* a plan execution that skips an infeasible step and keeps the rest of the plan
_execute_current_plan_skipping(agent, p) ==
    IF agent.current_plan = <<>> \/ agent.plan_step_index >= Len(agent.current_plan) THEN [action |-> NONE, agent |-> agent]
    ELSE LET plan_step == agent.current_plan[agent.plan_step_index + 1]
         IN  IF _is_action_feasible(plan_step.action, p)
             THEN [action |-> plan_step.action, agent |-> IF agent.plan_step_index + 1 >= Len(agent.current_plan) THEN ClearPlan([agent EXCEPT !.planning_stats.plans_completed = @ + 1]) ELSE [agent EXCEPT !.plan_step_index = @ + 1]]
             ELSE [action |-> NONE, agent |-> [agent EXCEPT !.plan_step_index = @ + 1, !.planning_stats.plans_abandoned = @ + 1, !.planning_stats.replanning_events = @ + 1]]

\* _execute_current_plan: the action (or NONE) and the agent afterwards
_execute_current_plan(agent, p) ==
    IF agent.current_plan = <<>> \/ agent.plan_step_index >= Len(agent.current_plan) THEN [action |-> NONE, agent |-> agent]
    ELSE LET plan_step == agent.current_plan[agent.plan_step_index + 1]
         IN  IF _is_action_feasible(plan_step.action, p)
             THEN [action |-> plan_step.action, agent |-> IF agent.plan_step_index + 1 >= Len(agent.current_plan) THEN ClearPlan([agent EXCEPT !.planning_stats.plans_completed = @ + 1]) ELSE [agent EXCEPT !.plan_step_index = @ + 1]]
             ELSE [action |-> NONE, agent |-> ClearPlan([agent EXCEPT !.planning_stats.plans_abandoned = @ + 1, !.planning_stats.replanning_events = @ + 1])]

_reactive_fallback(agent, p) ==
    LET agent1 == IF _is_in_hazard(p) THEN HazardPenalty(agent) ELSE agent
        safe_moves == {action \in DOMAIN DIRECTION_MAPPINGS : SafeCell(p, Neighbour(p.current_position, action))}
        valid_moves == {action \in DOMAIN DIRECTION_MAPPINGS : LET new_pos == Neighbour(p.current_position, action) IN new_pos \in DOMAIN p.visible_cells /\ p.visible_cells[new_pos] # WALL /\ ~InSeq(new_pos, p.visible_agents)}
    IN  IF _is_in_hazard(p) /\ safe_moves # {} THEN {Decision(action, "Reactive: Escaping hazard", agent1) : action \in safe_moves}
        ELSE IF CellIs(p, p.current_position, RESOURCE) /\ ~p.carrying_resource THEN {Decision(PICKUP, "Reactive: Picking up resource", agent1)}
        ELSE IF CellIs(p, p.current_position, GOAL) /\ p.carrying_resource THEN {Decision(DROP, "Reactive: Dropping at goal", agent1)}
        ELSE IF valid_moves # {} THEN {Decision(action, "Reactive: Random exploration", agent1) : action \in valid_moves}
        ELSE {Decision(WAIT, "Reactive: No valid moves", agent1)}

\* _find_safe_positions: the two lists, as the sets of their elements
_find_safe_positions(agent, p) ==
    LET safe_positions == {pos \in agent.known_empty \cup agent.known_goals \cup agent.known_resources : ~InSeq(pos, p.visible_agents)}
    IN  [safe_positions |-> safe_positions, preferred_safe_moves |-> {pos \in safe_positions : (~agent.carrying_resource /\ pos \in agent.known_resources) \/ (agent.carrying_resource /\ pos \in agent.known_goals) \/ pos \notin agent.visited_positions}]

_is_edge_position(position, p) == Cardinality({k \in 1..Len(AStarNeighbours) : move(position, AStarNeighbours[k][1], AStarNeighbours[k][2]) \in DOMAIN p.visible_cells}) < 4

\* the positions of S as a list in visible_cells order (x ascending, then y ascending)
RECURSIVE InCellOrder(_)
InCellOrder(S) == IF S = {} THEN <<>> ELSE LET first == CHOOSE t \in S : \A u \in S : t = u \/ PosLess(t, u) IN <<first>> \o InCellOrder(S \ {first})

_find_exploration_targets(agent, p) ==
    LET edge == {pos \in DOMAIN p.visible_cells : _is_edge_position(pos, p) /\ pos \notin agent.visited_positions}
        targets == InCellOrder(IF edge # {} THEN edge ELSE {pos \in DOMAIN p.visible_cells : p.visible_cells[pos] # WALL /\ pos \notin agent.visited_positions})
    IN  SubSeq(targets, 1, Min(5, Len(targets)))

\* a goal selection that takes the first candidate, whatever its utility
FirstBestGoal_first(hazard_goals, target_goals, exploration_goals) ==
    IF hazard_goals # <<>> THEN {hazard_goals[1]}
    ELSE IF target_goals # {} THEN target_goals
    ELSE IF exploration_goals # <<>> THEN {exploration_goals[1]}
    ELSE {}

\* max(candidate_goals, key=utility): the first candidate of greatest utility in the
\* list hazard_goals + target_goals + exploration_goals, where target_goals (one per
\* element of a set) come in an order the code does not fix
FirstBestGoal(hazard_goals, target_goals, exploration_goals) ==
    LET all == {hazard_goals[i] : i \in DOMAIN hazard_goals} \cup target_goals \cup {exploration_goals[i] : i \in DOMAIN exploration_goals}
        IsBest(g) == \A h \in all : UtilityGE(g, h)
    IN  IF \E i \in DOMAIN hazard_goals : IsBest(hazard_goals[i]) THEN {hazard_goals[CHOOSE i \in DOMAIN hazard_goals : IsBest(hazard_goals[i]) /\ \A j \in 1..(i - 1) : ~IsBest(hazard_goals[j])]}
        ELSE IF \E g \in target_goals : IsBest(g) THEN {g \in target_goals : IsBest(g)}
        ELSE IF \E i \in DOMAIN exploration_goals : IsBest(exploration_goals[i]) THEN {exploration_goals[CHOOSE i \in DOMAIN exploration_goals : IsBest(exploration_goals[i]) /\ \A j \in 1..(i - 1) : ~IsBest(exploration_goals[j])]}
        ELSE {}

\* the lists of hazard_avoidance candidates _select_best_goal can build
HazardGoalLists(agent, p) ==
    LET sp == _find_safe_positions(agent, p)
        preferred == IF sp.preferred_safe_moves # {} THEN {<<Goal("hazard_avoidance", t, p.current_position)>> : t \in Closest(sp.preferred_safe_moves, p.current_position)} ELSE {<<>>}
        safe == IF sp.safe_positions # {} THEN {<<Goal("hazard_avoidance", t, p.current_position)>> : t \in Closest(sp.safe_positions, p.current_position)} ELSE {<<>>}
    IN  IF _is_in_hazard(p) THEN {l \o m : l \in preferred, m \in safe} ELSE {<<>>}

\* _select_best_goal: the goals it can return; empty when it returns None
_select_best_goal(agent, p) ==
    LET target_goals == IF p.carrying_resource THEN {Goal("resource_delivery", t, p.current_position) : t \in agent.known_goals \cup get_cells_of_type(p, GOAL)} ELSE {Goal("resource_collection", t, p.current_position) : t \in agent.known_resources \cup get_cells_of_type(p, RESOURCE)}
        targets == _find_exploration_targets(agent, p)
        exploration_goals == [i \in 1..Len(targets) |-> Goal("exploration", targets[i], p.current_position)]
    IN  UNION {FirstBestGoal(hazard_goals, target_goals, exploration_goals) : hazard_goals \in HazardGoalLists(agent, p)}

\* a planning step that adopts and counts the plan also when no path was found
PlanAnew_adopting(agent, p) ==
    LET new_goals == _select_best_goal(agent, p)
    IN  IF new_goals = {} THEN _reactive_fallback(agent, p)
        ELSE UNION {LET gp == _generate_plan(agent, new_goal, p)
                        adopted == [gp.agent EXCEPT !.current_goal = new_goal, !.current_plan = gp.plan, !.plan_step_index = 0, !.planning_stats.plans_generated = @ + 1]
                        ex == _execute_current_plan(adopted, p)
                    IN  IF ex.action # NONE THEN {Decision(ex.action, "New Plan", ex.agent)}
                        ELSE _reactive_fallback(ex.agent, p) : new_goal \in new_goals}

\* decide_action from `new_goal = self._select_best_goal(perception)` on
PlanAnew(agent, p) ==
    LET new_goals == _select_best_goal(agent, p)
    IN  IF new_goals = {} THEN _reactive_fallback(agent, p)
        ELSE UNION {LET gp == _generate_plan(agent, new_goal, p)
                        adopted == [gp.agent EXCEPT !.current_goal = new_goal, !.current_plan = gp.plan, !.plan_step_index = 0, !.planning_stats.plans_generated = @ + 1]
                        ex == _execute_current_plan(adopted, p)
                    IN  IF gp.plan = <<>> THEN _reactive_fallback(gp.agent, p)
                        ELSE IF ex.action # NONE THEN {Decision(ex.action, "New Plan", ex.agent)}
                        ELSE _reactive_fallback(ex.agent, p) : new_goal \in new_goals}

GoalBasedAgent_decide_action(agent, p) ==
    IF _is_plan_valid(agent, p) /\ agent.current_plan # <<>>
    THEN LET ex == _execute_current_plan(agent, p)
         IN  IF ex.action # NONE THEN {Decision(ex.action, "Plan Execution", ex.agent)} ELSE PlanAnew(ex.agent, p)
    ELSE PlanAnew(agent, p)

-----------------------------------------------------------------------------
(* Dispatch on the agent's class *)

perceive(agent, ags, res, a) == IF agent.kind = "goal" THEN GoalBasedAgent_perceive(agent, ags, res, a) ELSE IF agent.kind = "module" THEN ModelBasedReflexAgent_perceive(agent, ags, res, a) ELSE SimpleReflexAgent_perceive(agent, ags, res, a)

decide_action(agent, p) == IF agent.kind = "goal" THEN GoalBasedAgent_decide_action(agent, p) ELSE IF agent.kind = "module" THEN ModelBasedReflexAgent_decide_action(agent, p) ELSE SimpleReflexAgent_decide_action(agent, p)

-----------------------------------------------------------------------------
(* Configurations (the JSON file load_config reads) *)

AgentConfig(type, position, energy) == [type |-> type, position |-> position, energy |-> energy]

Config(size, w, g, r, h, ags) == [grid_size |-> size, walls |-> w, goals |-> g, resources |-> r, hazards |-> h, agents |-> ags]

AgentTypes == {"simple", "module", "goal"}

\* 3x3 grid: a wall in the centre, a hazard on the west edge, one resource, one goal
LayoutA(ags) == Config(<<3, 3>>, {<<1, 1>>}, {<<2, 2>>}, {<<2, 0>>}, {<<0, 1>>}, ags)

\* 3x2 grid: a resource next to a goal, a hazard below the resource, a wall in a corner
LayoutC(ags) == Config(<<3, 2>>, {<<0, 1>>}, {<<2, 0>>}, {<<1, 0>>}, {<<1, 1>>}, ags)

\* 6x1 corridor: the resource is out of sight of an agent at the west end
LayoutD(ags) == Config(<<6, 1>>, {}, {<<0, 0>>}, {<<4, 0>>}, {}, ags)

\* 3x1 corridor: two resources side by side and a goal at the east end
LayoutR(ags) == Config(<<3, 1>>, {}, {<<2, 0>>}, {<<0, 0>>, <<1, 0>>}, {}, ags)

\* 2x1 grid of hazard cells only: no safe cell to plan an escape to
LayoutH(ags) == Config(<<2, 1>>, {}, {}, {}, {<<0, 0>>, <<1, 0>>}, ags)

\* 5x5 open grid with a resource at (2,0) and a goal at (4,0), one simple agent at (0,0)
LayoutLine(energy) == Config(<<5, 5>>, {}, {<<4, 0>>}, {<<2, 0>>}, {}, <<AgentConfig("simple", <<0, 0>>, energy)>>)

\* 3x3 grid: a hazard at the centre with walls west, east and south of it and an empty cell north
LayoutW(r, ags) == Config(<<3, 3>>, {<<0, 1>>, <<2, 1>>, <<1, 2>>}, {<<0, 0>>}, r, {<<1, 1>>}, ags)

\* 3x1 corridor: a resource lying on the hazard cell (1,0), the goal at (2,0)
LayoutT(ags) == Config(<<3, 1>>, {}, {<<2, 0>>}, {<<1, 0>>}, {<<1, 0>>}, ags)

\* 1x1 grid: the agent has no neighbour cell
LayoutBox(type) == Config(<<1, 1>>, {}, {}, {}, {}, <<AgentConfig(type, <<0, 0>>, 1)>>)

\* 3x6 grid: a corridor along x = 1 with walls to its west, a resource at (2,2) beside it and
\* free cells south of the resource
LayoutV(ags) == Config(<<3, 6>>, {<<0, 0>>, <<0, 1>>, <<0, 2>>, <<0, 3>>, <<0, 4>>, <<0, 5>>, <<2, 0>>, <<2, 1>>}, {}, {<<2, 2>>}, {}, ags)

Configs ==
    {LayoutA(<<AgentConfig(t, pos, e)>>) : t \in AgentTypes, pos \in {<<0, 0>>, <<0, 1>>, <<2, 1>>}, e \in {MaxEnergy - 1, MaxEnergy}}
    \cup {LayoutA(<<AgentConfig(t, <<0, 0>>, MaxEnergy - 1), AgentConfig(u, <<1, 0>>, MaxEnergy - 2)>>) : t \in AgentTypes, u \in AgentTypes}
    \cup {LayoutC(<<AgentConfig(t, pos, e)>>) : t \in AgentTypes, pos \in {<<0, 0>>, <<1, 1>>}, e \in {MaxEnergy}}
    \cup {LayoutC(<<AgentConfig(t, <<0, 0>>, MaxEnergy), AgentConfig(u, <<2, 1>>, MaxEnergy - 1)>>) : t \in AgentTypes, u \in AgentTypes}
    \cup {LayoutD(<<AgentConfig(t, <<1, 0>>, MaxEnergy + 2)>>) : t \in AgentTypes}
    \cup {LayoutD(<<AgentConfig("simple", <<0, 0>>, 2), AgentConfig(u, <<5, 0>>, 2)>>) : u \in {"module", "goal"}}
    \cup {LayoutH(<<AgentConfig(t, <<0, 0>>, e)>>) : t \in {"module", "goal"}, e \in {MaxEnergy - 1, MaxEnergy}}
    \cup {LayoutH(<<AgentConfig("simple", <<0, 0>>, 2)>>)}
    \cup {LayoutA(<<AgentConfig("simple", <<0, 1>>, 2), AgentConfig("simple", <<0, 2>>, 1)>>)}
    \cup {LayoutW(r, <<AgentConfig(t, <<1, 1>>, e)>>) : r \in {{}, {<<2, 0>>}}, t \in AgentTypes, e \in {MaxEnergy, MaxEnergy + 2}}
    \cup {LayoutA(<<AgentConfig("goal", <<0, 2>>, MaxEnergy + 1), AgentConfig("simple", <<1, 0>>, 2)>>)}
    \cup {LayoutD(<<AgentConfig("goal", <<2, 0>>, MaxEnergy), AgentConfig("simple", <<5, 0>>, 2)>>)}
    \cup {LayoutT(<<AgentConfig(t, <<0, 0>>, MaxEnergy)>>) : t \in AgentTypes}
    \cup {LayoutV(<<AgentConfig("goal", <<1, 0>>, MaxEnergy + 3), AgentConfig("simple", <<2, 3>>, 2)>>)}
    \cup {LayoutLine(e) : e \in {6, 8}}
    \cup {LayoutBox(t) : t \in AgentTypes}
    \cup {LayoutD(<<AgentConfig("simple", <<4, 0>>, 1), AgentConfig(t, <<5, 0>>, 2)>>) : t \in AgentTypes}
    \cup {LayoutD(<<AgentConfig(t, <<5, 0>>, 2), AgentConfig("simple", <<4, 0>>, 1)>>) : t \in AgentTypes}

\* InteractiveSimulation.save_state: the entry appended to history (its environment part)
save_state(ags, res) == [agents |-> ags, resources |-> res]

\* GridWorld.__init__ / load_config and InteractiveSimulation.__init__
InitFrom(c) ==
    /\ config = c
    /\ grid_size = c.grid_size
    /\ walls = c.walls
    /\ goals = c.goals
    /\ resources = c.resources
    /\ hazards = c.hazards
    /\ agents = [i \in 1..Len(c.agents) |-> [position |-> c.agents[i].position, energy |-> c.agents[i].energy, carrying |-> FALSE, type |-> c.agents[i].type]]
    /\ step_count = 0
    /\ agent_instances = [i \in 1..Len(c.agents) |-> CreateAgent(c.agents[i].type, c.agents[i].position, c.agents[i].energy)]
    /\ current_step = 0
    /\ simulation_ended = FALSE
    /\ idx = 0
    /\ active_agents = 0
    /\ perception = NoPerception
    /\ returned = FALSE
    /\ call = NoCall
    /\ history = save_state(agents, resources)

Init == \E c \in Configs : InitFrom(c)

-----------------------------------------------------------------------------
(* main.py: InteractiveSimulation.next_step, one action per loop iteration *)

\* the early return `current_step >= max_steps`
MaxStepsReached ==
    /\ idx = 0
    /\ ~simulation_ended
    /\ current_step >= max_steps
    /\ simulation_ended' = TRUE
    /\ UNCHANGED <<envStatic, resources, agents, step_count, agent_instances, current_step, idx, active_agents, perception, returned, call, history>>

StepRuns == idx > 0 \/ (~simulation_ended /\ current_step < max_steps)

\* loop iteration for an agent that is not active: `continue`
SkipInactive ==
    /\ StepRuns
    /\ idx < Len(agent_instances)
    /\ ~is_active(agent_instances[idx + 1])
    /\ idx' = idx + 1
    /\ active_agents' = (IF idx = 0 THEN 0 ELSE active_agents)
    /\ UNCHANGED <<envStatic, resources, agents, step_count, agent_instances, current_step, simulation_ended, perception, returned, call, history>>

\* loop iteration for an active agent: perceive, decide_action, apply_action
AgentTurn ==
    /\ StepRuns
    /\ idx < Len(agent_instances)
    /\ is_active(agent_instances[idx + 1])
    /\ LET a == idx + 1
           pr == perceive(agent_instances[a], agents, resources, a)
       IN  \E d \in decide_action(pr.agent, pr.perception) :
               LET r == apply_action(d.agent, agents, resources, step_count, returned, a, d.action)
               IN  /\ perception' = pr.perception
                   /\ agent_instances' = [agent_instances EXCEPT ![a] = r.agent]
                   /\ agents' = r.agents
                   /\ resources' = r.resources
                   /\ step_count' = r.step_count
                   /\ returned' = r.returned
                   /\ call' = [method |-> "apply_action", agent |-> a, action |-> d.action, reason |-> d.reason]
    /\ idx' = idx + 1
    /\ active_agents' = (IF idx = 0 THEN 0 ELSE active_agents) + 1
    /\ UNCHANGED <<envStatic, current_step, simulation_ended, history>>

\* after the loop: `if active_agents == 0` ends the simulation
EndSimulation ==
    /\ idx = Len(agent_instances)
    /\ idx > 0
    /\ active_agents = 0
    /\ simulation_ended' = TRUE
    /\ idx' = 0
    /\ UNCHANGED <<envStatic, resources, agents, step_count, agent_instances, current_step, active_agents, perception, returned, call, history>>

\* after the loop: current_step += 1, the step count is synchronised and the state is saved
EndStep ==
    /\ idx = Len(agent_instances)
    /\ idx > 0
    /\ active_agents > 0
    /\ current_step' = current_step + 1
    /\ step_count' = current_step + 1
    /\ idx' = 0
    /\ history' = save_state(agents, resources)
    /\ UNCHANGED <<envStatic, resources, agents, agent_instances, simulation_ended, active_agents, perception, returned, call>>

Next == MaxStepsReached \/ SkipInactive \/ AgentTurn \/ EndSimulation \/ EndStep

Spec == Init /\ [][Next]_vars

-----------------------------------------------------------------------------
(* Direct calls: the environment's apply_action and the agent's            *)
(* execute_action invoked with any action, on any agent, in any order      *)

\* calls made so far on the agents 1..n: each call counts as an action taken or as a collision
RECURSIVE CallsMade(_)
CallsMade(n) == IF n = 0 THEN 0 ELSE agent_instances[n].actions_taken + agent_instances[n].collisions + CallsMade(n - 1)

CallsLeft == CallsMade(Len(agent_instances)) < MaxCalls

\* GridWorld.apply_action(agent a, action)
ApplyActionCall(a, action) ==
    /\ CallsLeft
    /\ LET r == apply_action(agent_instances[a], agents, resources, step_count, returned, a, action)
       IN  /\ agent_instances' = [agent_instances EXCEPT ![a] = r.agent]
           /\ agents' = r.agents
           /\ resources' = r.resources
           /\ step_count' = r.step_count
           /\ returned' = r.returned
    /\ call' = [method |-> "apply_action", agent |-> a, action |-> action, reason |-> NONE]
    /\ UNCHANGED <<envStatic, driverVars, perception, history>>

\* BaseAgent.execute_action(action) on agent a
ExecuteActionCall(a, action) ==
    /\ CallsLeft
    /\ agent_instances' = [agent_instances EXCEPT ![a] = execute_action(@, action)]
    /\ returned' = execute_action_result(agent_instances[a], action)
    /\ call' = [method |-> "execute_action", agent |-> a, action |-> action, reason |-> NONE]
    /\ UNCHANGED <<envStatic, driverVars, perception, history, agents, resources, step_count>>

ApplyAction == \E a \in DOMAIN agent_instances, action \in Action : ApplyActionCall(a, action)

ExecuteAction == \E a \in DOMAIN agent_instances, action \in Action : ExecuteActionCall(a, action)

ApplyConfigs ==
    {LayoutA(<<AgentConfig("simple", <<0, 0>>, e)>>) : e \in {1, MaxEnergy}}
    \cup {LayoutC(<<AgentConfig("module", <<1, 0>>, e)>>) : e \in {1, MaxEnergy}}
    \cup {LayoutC(<<AgentConfig("simple", <<1, 0>>, 2), AgentConfig("goal", <<1, 0>>, 1)>>)}
    \cup {LayoutR(<<AgentConfig("goal", <<0, 0>>, MaxEnergy)>>)}

InitApply == \E c \in ApplyConfigs : InitFrom(c)

NextApply == ApplyAction \/ ExecuteAction

SpecApply == InitApply /\ [][NextApply]_vars

-----------------------------------------------------------------------------
(* Properties of apply_action and execute_action, checked on direct calls  *)
(* (SpecApply)                                                             *)

\* the step is a call apply_action(agent a, action): the call is on record and
\* has touched the agent (every call adds an action taken or a collision)
AppliedTo(a, action) == call'.method = "apply_action" /\ call'.agent = a /\ call'.action = action /\ agent_instances'[a] # agent_instances[a]

\* the step is a call of execute_action(action) on agent a
ExecutedBy(a, action) == call'.method = "execute_action" /\ call'.agent = a /\ call'.action = action /\ agent_instances'[a] # agent_instances[a]

\* the cell a movement action leads to from the position of agent a
Destination(a, action) == move(agent_instances[a].position, DIRECTION_MAPPINGS[action][1], DIRECTION_MAPPINGS[action][2])

\* that cell lies on the grid and holds no wall
Enterable(pos) == pos[1] >= 0 /\ pos[1] < grid_size[1] /\ pos[2] >= 0 /\ pos[2] < grid_size[2] /\ pos \notin walls

\* C3: every apply_action call, a blocked movement included, ends in
\* execute_action: actions_taken grows by exactly 1, last_action is the action
\* applied and the action's energy cost is deducted (floored at 0).
C3_ApplyAlwaysExecutes ==
    [][\A a \in DOMAIN agent_instances, action \in Action :
          AppliedTo(a, action) =>
              /\ agent_instances'[a].actions_taken = agent_instances[a].actions_taken + 1
              /\ agent_instances'[a].last_action = action
              /\ agent_instances'[a].energy = Max(0, agent_instances[a].energy - (IF action = WAIT THEN 0 ELSE 1))]_vars

\* C4: a movement whose destination is off the grid or a wall leaves the
\* agent's position and the mirrored position unchanged and adds exactly one
\* collision; any other movement puts both positions on the destination and
\* leaves collisions unchanged.
C4_BlockedMove ==
    [][\A a \in DOMAIN agent_instances, action \in DOMAIN DIRECTION_MAPPINGS :
          AppliedTo(a, action) =>
              IF Enterable(Destination(a, action))
              THEN /\ agent_instances'[a].position = Destination(a, action)
                   /\ agents'[a].position = Destination(a, action)
                   /\ agent_instances'[a].collisions = agent_instances[a].collisions
              ELSE /\ agent_instances'[a].position = agent_instances[a].position
                   /\ agents'[a].position = agents[a].position
                   /\ agent_instances'[a].collisions = agent_instances[a].collisions + 1]_vars

\* an agent has moved, has then been blocked once, and mirror and agent agree on
\* a position whose east neighbour cannot be entered
C4_Witness ==
    \E a \in DOMAIN agent_instances :
        /\ agent_instances[a].collisions = 1
        /\ agent_instances[a].position # config.agents[a].position
        /\ agents[a].position = agent_instances[a].position
        /\ ~Enterable(move(agent_instances[a].position, 1, 0))

\* C5: PICKUP removes the agent's cell from the resources, sets the carrying
\* flag and adds 1 to resources_collected exactly when the agent stands on a
\* resource and is not carrying; otherwise all three are unchanged.
C5_Pickup ==
    [][\A a \in DOMAIN agent_instances :
          AppliedTo(a, PICKUP) =>
              IF agent_instances[a].position \in resources /\ ~agent_instances[a].carrying_resource
              THEN /\ resources' = resources \ {agent_instances[a].position}
                   /\ agent_instances[a].position \notin resources'
                   /\ agent_instances'[a].carrying_resource = TRUE
                   /\ agent_instances'[a].resources_collected = agent_instances[a].resources_collected + 1
              ELSE /\ resources' = resources
                   /\ agent_instances'[a].carrying_resource = agent_instances[a].carrying_resource
                   /\ agent_instances'[a].resources_collected = agent_instances[a].resources_collected]_vars

\* a carrying agent has tried PICKUP on a second resource, which is still there
C5_Witness ==
    \E a \in DOMAIN agent_instances :
        /\ agent_instances[a].carrying_resource
        /\ agent_instances[a].resources_collected = 1
        /\ agent_instances[a].last_action = PICKUP
        /\ agent_instances[a].position \in resources

\* C6: DROP adds 1 to goals_reached and clears the carrying flag exactly when
\* the agent is carrying and stands on a goal; otherwise goals_reached and the
\* carrying flag are unchanged (a DROP away from a goal keeps the cargo).
C6_Drop ==
    [][\A a \in DOMAIN agent_instances :
          AppliedTo(a, DROP) =>
              IF agent_instances[a].carrying_resource /\ agent_instances[a].position \in goals
              THEN /\ agent_instances'[a].goals_reached = agent_instances[a].goals_reached + 1
                   /\ agent_instances'[a].carrying_resource = FALSE
              ELSE /\ agent_instances'[a].goals_reached = agent_instances[a].goals_reached
                   /\ agent_instances'[a].carrying_resource = agent_instances[a].carrying_resource]_vars

\* a carried resource has been delivered by a DROP on the goal
C6_Witness ==
    \E a \in DOMAIN agent_instances :
        /\ agent_instances[a].goals_reached = 1
        /\ agent_instances[a].last_action = DROP
        /\ ~agent_instances[a].carrying_resource
        /\ agent_instances[a].resources_collected = 1
        /\ agent_instances[a].position \in goals

\* a DROP away from the goal has kept the cargo
C6_WitnessKept ==
    \E a \in DOMAIN agent_instances :
        /\ agent_instances[a].last_action = DROP
        /\ agent_instances[a].carrying_resource
        /\ agent_instances[a].position \notin goals

\* C7: after every apply_action call the environment's mirror of the agent
\* (position, energy, carrying) equals the agent's own position, energy and
\* carrying flag, so the energy_level of a Perception taken then equals the
\* agent's energy.
C7_MirrorInSync ==
    [][\A a \in DOMAIN agent_instances, action \in Action :
          AppliedTo(a, action) =>
              /\ agents'[a].position = agent_instances'[a].position
              /\ agents'[a].energy = agent_instances'[a].energy
              /\ agents'[a].carrying = agent_instances'[a].carrying_resource
              /\ get_agent_perception(agents', resources', a).energy_level = agent_instances'[a].energy]_vars

\* C9: execute_action adds 1 to actions_taken, records the action as
\* last_action, sets energy to max(0, energy - cost) with cost 0 for WAIT and
\* 1 for every other action, and returns TRUE exactly when the energy left
\* is greater than 0.
C9_ExecuteAction ==
    [][\A a \in DOMAIN agent_instances, action \in Action :
          ExecutedBy(a, action) =>
              /\ agent_instances'[a].actions_taken = agent_instances[a].actions_taken + 1
              /\ agent_instances'[a].last_action = action
              /\ agent_instances'[a].energy = Max(0, agent_instances[a].energy - (IF action = WAIT THEN 0 ELSE 1))
              /\ returned' = (agent_instances'[a].energy > 0)]_vars

\* an exhausted agent has executed a further action at the floor, and a WAIT has cost nothing
C9_Witness ==
    \E a \in DOMAIN agent_instances :
        /\ agent_instances[a].energy = 0
        /\ agent_instances[a].energy_consumed > config.agents[a].energy
        /\ agent_instances[a].actions_taken = MaxCalls
        /\ agent_instances[a].collisions = 0
        /\ ~returned

\* a WAIT was executed for free and execute_action returned TRUE
C9_WitnessWait ==
    \E a \in DOMAIN agent_instances :
        /\ agent_instances[a].last_action = WAIT
        /\ agent_instances[a].actions_taken = 1
        /\ agent_instances[a].energy = config.agents[a].energy
        /\ step_count = 0
        /\ returned

-----------------------------------------------------------------------------
(* Properties of whole simulation runs (Spec) *)

\* C1: for every agent variant, over every sequence of simulation steps, an
\* agent's energy is never below 0 and never increases from one state to the
\* next; the deduction of execute_action and the hazard penalty of
\* decide_action / _reactive_fallback are both covered.
C1_EnergyMonotone ==
    /\ [](\A a \in DOMAIN agent_instances : agent_instances[a].energy >= 0)
    /\ [][\A a \in DOMAIN agent_instances : agent_instances'[a].energy <= agent_instances[a].energy]_vars

\* the hazard penalty of _reactive_fallback has taken a goal-based agent's
\* energy to the floor: its actions cost less than the energy it has lost,
\* and a full penalty on top of them would have cost more
C1_Witness ==
    \E a \in DOMAIN agent_instances :
        /\ agent_instances[a].kind = "goal"
        /\ agent_instances[a].energy = 0
        /\ agent_instances[a].energy_consumed < config.agents[a].energy
        /\ agent_instances[a].energy_consumed + 4 > config.agents[a].energy
        /\ agent_instances[a].position \in hazards

\* the hazard penalty of ModelBasedReflexAgent.decide_action has done the same
C1_WitnessModelBased ==
    \E a \in DOMAIN agent_instances :
        /\ agent_instances[a].kind = "module"
        /\ agent_instances[a].energy = 0
        /\ agent_instances[a].actions_taken + agent_instances[a].collisions = 1
        /\ config.agents[a].energy = MaxEnergy - 1

\* the first six actions of the scenario of C2, in order
LineActions == <<MOVE_EAST, MOVE_EAST, PICKUP, MOVE_EAST, MOVE_EAST, DROP>>

\* the positions the agent holds after each of them
LinePositions == <<Position(1, 0), Position(2, 0), Position(2, 0), Position(3, 0), Position(4, 0), Position(4, 0)>>

\* C2: one simple reflex agent starting at (0,0), not carrying, on a 5x5 grid
\* without walls or hazards, a resource at (2,0), a goal at (4,0) and enough
\* energy: the first six actions applied are MOVE_EAST, MOVE_EAST, PICKUP,
\* MOVE_EAST, MOVE_EAST, DROP (none of them blocked); after them the agent is
\* at (4,0), not carrying, with resources_collected = 1 and goals_reached = 1.
C2_LineScenario ==
    (\E e \in 6..8 : config = LayoutLine(e)) =>
        LET agent == agent_instances[1]
            k == agent.actions_taken
        IN  /\ k <= 6 => agent.collisions = 0
            /\ k \in 1..6 => agent.last_action = LineActions[k] /\ agent.position = LinePositions[k]
            /\ k = 6 => /\ agent.position = Position(4, 0)
                        /\ agent.resources_collected = 1
                        /\ agent.goals_reached = 1
                        /\ ~agent.carrying_resource
                        /\ resources = {}

\* the sixth action of the scenario has been applied
C2_Witness ==
    /\ \E e \in 6..8 : config = LayoutLine(e)
    /\ agent_instances[1].actions_taken = 6
    /\ agent_instances[1].last_action = DROP
    /\ agent_instances[1].goals_reached = 1

\* C8: for all three agent variants, the Perception perceive returns has
\* carrying_resource equal to the agent's own flag at that moment, whatever
\* the environment's mirror holds.
C8_PerceiveCarrying ==
    [][AgentTurn => perception'.carrying_resource = agent_instances[idx + 1].carrying_resource]_vars

\* an agent that carries a resource has perceived while the mirror says it carries none
C8_Witness ==
    /\ Len(agent_instances) = 1
    /\ idx = 1
    /\ perception.carrying_resource
    /\ ~agents[1].carrying
    /\ agent_instances[1].actions_taken > agent_instances[1].resources_collected

\* C10: an agent whose energy is 0 is skipped in this and every later step:
\* it neither perceives nor decides nor has an action applied, so its
\* position, cargo, energy, counters (and everything else it holds) and its
\* mirror stay as they are for the rest of the run.
C10_ExhaustedAgentFrozen ==
    [][\A a \in DOMAIN agent_instances :
          agent_instances[a].energy = 0 => agent_instances'[a] = agent_instances[a] /\ agents'[a] = agents[a]]_vars

\* a step has been completed in which an exhausted agent was skipped while
\* the other agent acted
C10_Witness ==
    /\ Len(agent_instances) = 2
    /\ idx = 0
    /\ ~simulation_ended
    /\ \E a \in 1..2 :
          /\ agent_instances[a].energy = 0
          /\ agent_instances[a].actions_taken + agent_instances[a].collisions < current_step
          /\ agent_instances[3 - a].actions_taken + agent_instances[3 - a].collisions = current_step

\* the step is the turn of an active agent, agent idx + 1: perceive, decide_action, apply_action
Turn == idx' = idx + 1 /\ is_active(agent_instances[idx + 1])

\* pos lies within 2 cells of centre in both coordinates
Near(centre, pos) == Abs(pos[1] - centre[1]) <= 2 /\ Abs(pos[2] - centre[2]) <= 2

C11_WitnessSeen ==
    /\ Len(agent_instances) = 2
    /\ grid_size[1] > 5
    /\ Len(perception.visible_agents) = 1
    /\ Abs(perception.visible_agents[1][1] - perception.current_position[1]) = 2

-----------------------------------------------------------------------------
(* Properties of the order of perceptions and actions within a step        *)

\* the perception of agent a in the state the running step started from
StepStartPerception(a) == get_agent_perception(history.agents, history.resources, a)

\* C12: in a simulation step every agent's decision is based on a perception taken before any
\* agent has acted in that step: the cells and the agents an agent sees in its turn are those
\* of the state the step started from, whatever the agents earlier in the iteration order did.
C12_PerceptionBeforeActions ==
    [][Turn => /\ perception'.visible_cells = StepStartPerception(idx + 1).visible_cells
               /\ perception'.visible_agents = StepStartPerception(idx + 1).visible_agents]_vars

-----------------------------------------------------------------------------
(* Properties of the simple reflex agent's rules                           *)

\* the turn of an active simple reflex agent
SimpleTurn == Turn /\ agent_instances[idx + 1].kind = "simple"

\* the moves from the centre of perception p into a visible cell that is neither WALL nor HAZARD
\* and on which no visible agent stands
FreeMoves(p) == {action \in {MOVE_NORTH, MOVE_SOUTH, MOVE_EAST, MOVE_WEST} : LET dest == move(p.current_position, DIRECTION_MAPPINGS[action][1], DIRECTION_MAPPINGS[action][2]) IN dest \in DOMAIN p.visible_cells /\ p.visible_cells[dest] # WALL /\ p.visible_cells[dest] # HAZARD /\ \A k \in DOMAIN p.visible_agents : p.visible_agents[k] # dest}

\* C13: a simple reflex agent that perceives its own cell as HAZARD decides by the hazard
\* rule and no other: a move into an adjacent visible cell that is neither WALL nor HAZARD
\* nor occupied by a visible agent when there is one, WAIT when there is none.
C13_HazardFirst ==
    [][SimpleTurn /\ perception'.visible_cells[perception'.current_position] = HAZARD
         => /\ call'.reason = "hazard_avoidance"
            /\ IF FreeMoves(perception') # {} THEN call'.action \in FreeMoves(perception') ELSE call'.action = WAIT]_vars

\* a simple reflex agent on a hazard whose only neighbour is a hazard too has waited
C13_Witness ==
    /\ call.method = "apply_action"
    /\ agent_instances[call.agent].kind = "simple"
    /\ perception.visible_cells[perception.current_position] = HAZARD
    /\ FreeMoves(perception) = {}
    /\ call.action = WAIT

\* a simple reflex agent on a hazard with a free cell on one side and an agent on the other has moved to the free cell
C13_WitnessMove ==
    /\ call.method = "apply_action"
    /\ agent_instances[call.agent].kind = "simple"
    /\ perception.visible_cells[perception.current_position] = HAZARD
    /\ perception.visible_agents # <<>>
    /\ distance_to(perception.visible_agents[1], perception.current_position) = 1
    /\ call.action \in FreeMoves(perception)

\* the simple reflex agent in turn carries a resource, perceives its own cell as neither HAZARD
\* nor GOAL and sees no GOAL cell
CarryingNoGoalInSight ==
    /\ SimpleTurn
    /\ perception'.carrying_resource
    /\ perception'.visible_cells[perception'.current_position] \notin {HAZARD, GOAL}
    /\ \A pos \in DOMAIN perception'.visible_cells : perception'.visible_cells[pos] # GOAL

\* C14 as stated: a simple reflex agent that carries a resource, is on neither a hazard nor a
\* goal cell and sees no GOAL cell decides WAIT.
C14_WaitWithoutGoal == [][CarryingNoGoalInSight => call'.action = WAIT]_vars

\* C14, amended: a simple reflex agent that carries a resource, is on neither a hazard nor a
\* goal cell and sees no GOAL cell decides by random exploration: a move into an adjacent
\* visible cell that is neither WALL nor HAZARD nor occupied by a visible agent when there is
\* one, WAIT only when there is none.
C14_ExploreWithoutGoal ==
    [][CarryingNoGoalInSight
         => /\ call'.reason = "random_exploration"
            /\ IF FreeMoves(perception') # {} THEN call'.action \in FreeMoves(perception') ELSE call'.action = WAIT]_vars

\* a carrying simple reflex agent with no goal in sight has made an exploration move
C14_Witness ==
    /\ call.method = "apply_action"
    /\ call.reason = "random_exploration"
    /\ call.action \in FreeMoves(perception)
    /\ agent_instances[call.agent].kind = "simple"
    /\ perception.carrying_resource
    /\ \A pos \in DOMAIN perception.visible_cells : perception.visible_cells[pos] # GOAL

-----------------------------------------------------------------------------
(* Properties of the hazard handling of the three agent variants           *)

\* the four cells next to the centre of perception p
Around(p) == {move(p.current_position, 0, -1), move(p.current_position, 0, 1), move(p.current_position, 1, 0), move(p.current_position, -1, 0)}

\* in perception p the cells next to the centre are one EMPTY cell with no agent on it and three WALL cells
OneWayOut(p) ==
    /\ Around(p) \subseteq DOMAIN p.visible_cells
    /\ Cardinality({pos \in Around(p) : p.visible_cells[pos] = WALL}) = 3
    /\ \E pos \in Around(p) : p.visible_cells[pos] = EMPTY /\ \A k \in DOMAIN p.visible_agents : p.visible_agents[k] # pos

\* C15: an agent of any of the three variants (the goal-based one with no plan in progress)
\* that stands on a HAZARD cell whose four neighbours are one unoccupied EMPTY cell and three
\* WALL cells decides the move into the EMPTY cell, never WAIT and never another action.
C15_OnlyWayOut ==
    [][(/\ Turn
        /\ (agent_instances[idx + 1].kind = "goal" => agent_instances[idx + 1].current_plan = <<>>)
        /\ perception'.visible_cells[perception'.current_position] = HAZARD
        /\ OneWayOut(perception'))
         => (/\ call'.action \in DOMAIN DIRECTION_MAPPINGS
             /\ perception'.visible_cells[move(perception'.current_position, DIRECTION_MAPPINGS[call'.action][1], DIRECTION_MAPPINGS[call'.action][2])] = EMPTY)]_vars

\* a goal-based agent with no plan has left a walled-in hazard by the first step of a new plan
C15_Witness ==
    /\ call.method = "apply_action"
    /\ agent_instances[call.agent].kind = "goal"
    /\ call.reason = "New Plan"
    /\ perception.visible_cells[perception.current_position] = HAZARD
    /\ OneWayOut(perception)
    /\ agent_instances[call.agent].position = move(perception.current_position, 0, -1)

\* a model-based agent that sees no resource has left a walled-in hazard by the exploration rule
C15_WitnessModelBased ==
    /\ call.method = "apply_action"
    /\ agent_instances[call.agent].kind = "module"
    /\ call.reason = "intelligent_exploration"
    /\ perception.visible_cells[perception.current_position] = HAZARD
    /\ OneWayOut(perception)
    /\ agent_instances[call.agent].position = move(perception.current_position, 0, -1)

\* a simple reflex agent has left a walled-in hazard
C15_WitnessSimple ==
    /\ call.method = "apply_action"
    /\ agent_instances[call.agent].kind = "simple"
    /\ perception.visible_cells[perception.current_position] = HAZARD
    /\ OneWayOut(perception)
    /\ agent_instances[call.agent].position = move(perception.current_position, 0, -1)

\* C16: whenever a model-based or a goal-based agent decides an action while standing on a
\* HAZARD cell, its energy is reduced by 4 (floored at 0) on top of the energy of the action
\* it makes (1 for a move), also when the goal-based agent's move is a plan step.
C16_HazardPenalty ==
    [][(/\ Turn
        /\ agent_instances[idx + 1].kind \in {"module", "goal"}
        /\ perception'.visible_cells[perception'.current_position] = HAZARD)
         => agent_instances'[idx + 1].energy = Max(0, Max(0, agent_instances[idx + 1].energy - 4) - (agent_instances'[idx + 1].energy_consumed - agent_instances[idx + 1].energy_consumed))]_vars

-----------------------------------------------------------------------------
(* Properties of the knowledge sets of the model-based and the goal-based agent *)

\* the turn of an active model-based or goal-based agent, whose perceive updates the world model
KnowingTurn == Turn /\ agent_instances[idx + 1].kind \in {"module", "goal"}

\* C17: after the world-model update of a model-based or goal-based agent has processed a
\* Perception that classifies as EMPTY a position that was in known_resources, the position
\* is not in known_resources and is in known_empty.
C17_ResourceForgotten ==
    [][KnowingTurn => \A pos \in agent_instances[idx + 1].known_resources :
                         (pos \in DOMAIN perception'.visible_cells /\ perception'.visible_cells[pos] = EMPTY)
                             => pos \notin agent_instances'[idx + 1].known_resources /\ pos \in agent_instances'[idx + 1].known_empty]_vars

\* the agent that picked up the only resource of the grid (so it had perceived it as RESOURCE)
\* has since perceived that cell as EMPTY, and knows it as empty and not as a resource
C17_Witness ==
    /\ call.method = "apply_action"
    /\ agent_instances[call.agent].kind \in {"module", "goal"}
    /\ agent_instances[call.agent].resources_collected = 1
    /\ Cardinality(config.resources) = 1
    /\ \A pos \in config.resources :
          /\ pos \in DOMAIN perception.visible_cells
          /\ perception.visible_cells[pos] = EMPTY
          /\ pos \in agent_instances[call.agent].known_empty
          /\ pos \notin agent_instances[call.agent].known_resources

\* C19: in every reachable state the five sets known_resources, known_goals, known_hazards,
\* known_walls and known_empty of a model-based or goal-based agent are pairwise disjoint,
\* whatever the grid (a resource may lie on a hazard cell) and whatever was perceived and
\* picked up.
C19_KnownSetsDisjoint ==
    \A a \in DOMAIN agent_instances :
        LET known == <<agent_instances[a].known_resources, agent_instances[a].known_goals, agent_instances[a].known_hazards, agent_instances[a].known_walls, agent_instances[a].known_empty>>
        IN  \A i \in 1..5 : \A j \in 1..5 : i # j => known[i] \cap known[j] = {}

-----------------------------------------------------------------------------
(* Direct calls of the world-model update with any classification of the   *)
(* cells of the agent's window                                             *)

\* 2x1 grid with nothing on it
LayoutPair(ags) == Config(<<2, 1>>, {}, {}, {}, {}, ags)

UpdateConfigs == {LayoutPair(<<AgentConfig(t, <<0, 0>>, MaxEnergy)>>) : t \in {"module", "goal"}}

InitUpdate == \E c \in UpdateConfigs : InitFrom(c)

\* the Perception objects for agent a's window: each visible cell of any type
Perceptions(a) == LET seen == get_agent_perception(agents, resources, a) IN {[seen EXCEPT !.visible_cells = cells] : cells \in [DOMAIN seen.visible_cells -> CellType]}

\* update_world_model(perception) / update_world_knowledge(perception) on agent a
UpdateWorldModelCall(a, p) ==
    /\ agent_instances' = [agent_instances EXCEPT ![a] = update_world_model(@, p)]
    /\ perception' = p
    /\ call' = [method |-> "update_world_model", agent |-> a, action |-> NONE, reason |-> NONE]
    /\ UNCHANGED <<envStatic, driverVars, history, agents, resources, step_count, returned>>

UpdateWorldModel == \E a \in DOMAIN agent_instances : \E p \in Perceptions(a) : UpdateWorldModelCall(a, p)

NextUpdate == UpdateWorldModel

SpecUpdate == InitUpdate /\ [][NextUpdate]_vars

\* C18: after the world-model update of a model-based or goal-based agent has processed a
\* Perception that classifies as EMPTY a position that was in known_goals, the position is
\* no longer in known_goals.
C18_GoalForgotten ==
    [][call'.method = "update_world_model"
         => \A pos \in agent_instances[call'.agent].known_goals :
               (pos \in DOMAIN perception'.visible_cells /\ perception'.visible_cells[pos] = EMPTY)
                   => pos \notin agent_instances'[call'.agent].known_goals]_vars

-----------------------------------------------------------------------------
(* Direct calls of the goal-based agent's path search: the agent perceives, *)
(* then find_path is called from its cell or a cell next to it to any goal,  *)
(* or _generate_plan with a goal of any type at any visible position        *)

PathConfigs ==
    {LayoutA(<<AgentConfig("goal", pos, MaxEnergy)>>) : pos \in {<<0, 0>>, <<2, 1>>}}
    \cup {LayoutC(<<AgentConfig("goal", <<0, 0>>, MaxEnergy), AgentConfig("simple", <<1, 0>>, MaxEnergy)>>)}
    \cup {LayoutA(<<AgentConfig("goal", <<0, 0>>, MaxEnergy), AgentConfig("simple", <<1, 0>>, MaxEnergy)>>)}
    \cup {LayoutD(<<AgentConfig("goal", <<1, 0>>, MaxEnergy)>>)}
    \cup {LayoutW({}, <<AgentConfig("goal", <<1, 1>>, MaxEnergy)>>)}

InitPath == \E c \in PathConfigs : InitFrom(c)

\* agent.perceive(env) on agent a
PerceiveCall(a) ==
    /\ LET pr == perceive(agent_instances[a], agents, resources, a)
       IN  /\ agent_instances' = [agent_instances EXCEPT ![a] = pr.agent]
           /\ perception' = pr.perception
    /\ call' = [method |-> "perceive", agent |-> a, action |-> NONE, reason |-> NONE]
    /\ UNCHANGED <<envStatic, driverVars, history, agents, resources, step_count, returned>>

\* find_path(start, goal, perception) on the goal-based agent a, with the perception it took last
FindPathCall(a, start, goal) ==
    /\ agent_instances[a].kind = "goal"
    /\ call.agent = a
    /\ call.method \in {"perceive", "find_path"}
    /\ agent_instances[a].planning_stats.path_finding_calls < MaxSearches
    /\ LET r == find_path(agent_instances[a], start, goal, perception)
       IN  /\ agent_instances' = [agent_instances EXCEPT ![a] = r.agent]
           /\ returned' = r.path
    /\ call' = [method |-> "find_path", agent |-> a, action |-> NONE, reason |-> NONE, start |-> start, goal |-> goal]
    /\ UNCHANGED <<envStatic, driverVars, history, agents, resources, step_count, perception>>

\* _generate_plan(goal, perception) on the goal-based agent a, with the perception it took last
GeneratePlanCall(a, goal) ==
    /\ agent_instances[a].kind = "goal"
    /\ call.agent = a
    /\ call.method \in {"perceive", "find_path", "_generate_plan"}
    /\ agent_instances[a].planning_stats.path_finding_calls < MaxSearches
    /\ LET gp == _generate_plan(agent_instances[a], goal, perception)
       IN  /\ agent_instances' = [agent_instances EXCEPT ![a] = gp.agent]
           /\ returned' = gp.plan
    /\ call' = [method |-> "_generate_plan", agent |-> a, action |-> NONE, reason |-> NONE, goal |-> goal]
    /\ UNCHANGED <<envStatic, driverVars, history, agents, resources, step_count, perception>>

Perceive == \E a \in DOMAIN agent_instances : PerceiveCall(a)

GeneratePlan == \E a \in DOMAIN agent_instances : \E goal_type \in DOMAIN UTILITY_VALUES : \E target \in DOMAIN perception.visible_cells : GeneratePlanCall(a, Goal(goal_type, target, perception.current_position))

FindPath == \E a \in DOMAIN agent_instances : \E start \in {pos \in DOMAIN perception.visible_cells : distance_to(pos, perception.current_position) <= 1} : \E goal \in _valid_positions : FindPathCall(a, start, goal)

NextPath == Perceive \/ FindPath \/ GeneratePlan

SpecPath == InitPath /\ [][NextPath]_vars

\* the step is a call of find_path
PathSearched == call'.method = "find_path" /\ agent_instances'[call'.agent].planning_stats.path_finding_calls = agent_instances[call'.agent].planning_stats.path_finding_calls + 1

\* C20: every non-empty path returned by find_path(start, goal, perception) excludes start,
\* ends with goal, begins at a position cardinally adjacent to start, and every two
\* consecutive positions of it differ by one unit in one coordinate.
C20_PathShape ==
    [][PathSearched /\ returned' # <<>>
         => /\ \A i \in 1..Len(returned') : returned'[i] # call'.start
            /\ returned'[Len(returned')] = call'.goal
            /\ Abs(returned'[1][1] - call'.start[1]) + Abs(returned'[1][2] - call'.start[2]) = 1
            /\ \A i \in 1..(Len(returned') - 1) : Abs(returned'[i + 1][1] - returned'[i][1]) + Abs(returned'[i + 1][2] - returned'[i][2]) = 1]_vars

\* find_path from the agent's own cell has returned a path of six positions: around the wall
\* and the hazard of the 3x3 grid
C20_Witness ==
    /\ call.method = "find_path"
    /\ call.start = agent_instances[call.agent].position
    /\ Len(returned) = 6
    /\ returned[6] = call.goal
    /\ \A i \in 1..6 : returned[i] \notin hazards

\* find_path has returned a path that crosses a hazard cell
C20_WitnessHazard ==
    /\ call.method = "find_path"
    /\ Len(returned) > 1
    /\ returned[1] \in hazards

\* C21: no position on a path returned by find_path is in known_walls, is perceived as WALL,
\* lies outside perception.visible_cells or is occupied by a visible other agent.
C21_PathAvoidsObstacles ==
    [][PathSearched
         => \A i \in 1..Len(returned') :
               /\ returned'[i] \notin agent_instances[call'.agent].known_walls
               /\ returned'[i] \in DOMAIN perception.visible_cells
               /\ perception.visible_cells[returned'[i]] # WALL
               /\ \A k \in DOMAIN perception.visible_agents : perception.visible_agents[k] # returned'[i]]_vars

\* find_path has returned a path of several positions that passes next to a visible agent:
\* the straight way to the goal leads over that agent's cell
C21_Witness ==
    /\ call.method = "find_path"
    /\ Len(returned) > 1
    /\ perception.visible_agents # <<>>
    /\ Len(returned) > Abs(call.start[1] - call.goal[1]) + Abs(call.start[2] - call.goal[2])
    /\ \E i \in 1..Len(returned) : Abs(returned[i][1] - perception.visible_agents[1][1]) + Abs(returned[i][2] - perception.visible_agents[1][2]) = 1

\* the cells next to the cells of S that agent a, with perception p, can enter: visible, not
\* known or perceived as a wall and with no visible agent on them
Enterables(a, p, S) == {pos \in DOMAIN p.visible_cells : /\ \E from \in S : Abs(pos[1] - from[1]) + Abs(pos[2] - from[2]) = 1
                                                         /\ pos \notin agent_instances[a].known_walls
                                                         /\ p.visible_cells[pos] # WALL
                                                         /\ \A k \in DOMAIN p.visible_agents : p.visible_agents[k] # pos}

\* the cells agent a can reach from the cells of S through cells it can enter
RECURSIVE ReachableFrom(_, _, _)
ReachableFrom(a, p, S) == IF Enterables(a, p, S) \subseteq S THEN S ELSE ReachableFrom(a, p, S \cup Enterables(a, p, S))

\* C22: find_path returns an empty path and counts a failure exactly when goal cannot be
\* reached from start through non-obstacle cells; when goal differs from start and can be
\* reached (be it only across hazard cells) the path is non-empty and no failure is counted;
\* every call counts as one in path_finding_calls.
C22_PathFoundOrFailure ==
    [][call'.method = "find_path"
         => \A reachable \in {call'.goal \in ReachableFrom(call'.agent, perception, {call'.start})} :
            LET before == agent_instances[call'.agent].planning_stats
                after == agent_instances'[call'.agent].planning_stats
            IN  /\ after.path_finding_calls = before.path_finding_calls + 1
                /\ (returned' = <<>> /\ after.path_finding_failures = before.path_finding_failures + 1) <=> ~reachable
                /\ (reachable /\ call'.goal # call'.start) => (returned' # <<>> /\ after.path_finding_failures = before.path_finding_failures)
                /\ after.path_finding_failures \in {before.path_finding_failures, before.path_finding_failures + 1}]_vars

\* the first find_path call of the agent has failed for a goal that is visible and no wall
C22_Witness ==
    /\ call.method = "find_path"
    /\ returned = <<>>
    /\ agent_instances[call.agent].planning_stats.path_finding_calls = 1
    /\ agent_instances[call.agent].planning_stats.path_finding_failures = 1
    /\ call.goal \in DOMAIN perception.visible_cells
    /\ perception.visible_cells[call.goal] # WALL

\* find_path has found a goal that can only be reached across a hazard cell
C22_WitnessHazard ==
    /\ call.method = "find_path"
    /\ Len(returned) = 2
    /\ returned[1] \in hazards
    /\ call.start = agent_instances[call.agent].position
    /\ \A pos \in DOMAIN perception.visible_cells : Abs(pos[1] - call.start[1]) + Abs(pos[2] - call.start[2]) = 1 => pos = returned[1] \/ pos \in walls \/ \E k \in DOMAIN perception.visible_agents : perception.visible_agents[k] = pos
    /\ agent_instances[call.agent].planning_stats.path_finding_failures = 0

-----------------------------------------------------------------------------
(* Properties of the goal-based agent's plans                              *)

\* plan is the list of movement steps along path, from position from on
MovesAlong(plan, path, from) ==
    /\ Len(plan) = Len(path)
    /\ \A i \in 1..Len(plan) :
          /\ plan[i].action \in {MOVE_NORTH, MOVE_SOUTH, MOVE_EAST, MOVE_WEST}
          /\ plan[i].target_position = path[i]
          /\ plan[i].target_position = LET prev == IF i = 1 THEN from ELSE plan[i - 1].target_position IN <<prev[1] + DIRECTION_MAPPINGS[plan[i].action][1], prev[2] + DIRECTION_MAPPINGS[plan[i].action][2]>>

\* C23: every non-empty plan generated for a resource_collection goal ends with a PICKUP step
\* at the goal's target position, every non-empty plan for a resource_delivery goal ends with
\* a DROP step there, and the steps before the last are movement actions, one per position
\* of the path from the agent to the target.
C23_PlanEndsWithTask ==
    [][(call'.method = "_generate_plan" /\ returned' # <<>> /\ call'.goal.goal_type \in {"resource_collection", "resource_delivery"})
         => LET plan == returned'
                path == find_path(agent_instances[call'.agent], perception.current_position, call'.goal.target_position, perception).path
            IN  /\ plan[Len(plan)].action = (IF call'.goal.goal_type = "resource_collection" THEN PICKUP ELSE DROP)
                /\ plan[Len(plan)].target_position = call'.goal.target_position
                /\ MovesAlong(SubSeq(plan, 1, Len(plan) - 1), path, agent_instances[call'.agent].position)]_vars

\* a plan of two movements and a PICKUP has been generated for a resource_collection goal
C23_Witness ==
    /\ call.method = "_generate_plan"
    /\ call.goal.goal_type = "resource_collection"
    /\ call.goal.target_position \in resources
    /\ Len(returned) = 3
    /\ returned[3].action = PICKUP

\* a plan of movements and a DROP has been generated for a resource_delivery goal
C23_WitnessDelivery ==
    /\ call.method = "_generate_plan"
    /\ call.goal.goal_type = "resource_delivery"
    /\ call.goal.target_position \in goals
    /\ Len(returned) > 2
    /\ returned[Len(returned)].action = DROP

-----------------------------------------------------------------------------
(* Direct calls of the goal-based agent's goal selection: the agents        *)
(* perceive and act in any order, and _select_best_goal is called with the  *)
(* perception the agent has just taken                                      *)

GoalConfigs ==
    {LayoutR(<<AgentConfig("goal", pos, MaxEnergy)>>) : pos \in {<<0, 0>>, <<2, 0>>}}
    \cup {LayoutW(r, <<AgentConfig("goal", <<1, 1>>, MaxEnergy)>>) : r \in {{}, {<<2, 0>>}}}
    \cup {LayoutBox("goal")}
    \cup {LayoutT(<<AgentConfig("goal", <<0, 0>>, MaxEnergy)>>)}

InitGoal == \E c \in GoalConfigs : InitFrom(c)

\* _select_best_goal(perception) on the goal-based agent a, right after its perceive
SelectBestGoalCall(a, goal) ==
    /\ agent_instances[a].kind = "goal"
    /\ call.agent = a
    /\ call.method = "perceive"
    /\ call' = [method |-> "_select_best_goal", agent |-> a, action |-> NONE, reason |-> NONE, selected |-> goal]
    /\ UNCHANGED <<envStatic, driverVars, history, agents, resources, step_count, perception, agent_instances, returned>>

SelectBestGoal == \E a \in DOMAIN agent_instances : LET best == _select_best_goal(agent_instances[a], perception) IN \E goal \in (IF best = {} THEN {NoGoal} ELSE best) : SelectBestGoalCall(a, goal)

NextGoal == Perceive \/ ApplyAction \/ SelectBestGoal

SpecGoal == InitGoal /\ [][NextGoal]_vars

\* the candidates _select_best_goal generates for agent a and perception p, as pairs of goal
\* type and target: an escape to a nearest safe position when on a hazard, a delivery to
\* every known or visible goal when carrying, a collection at every known or visible
\* resource when not, and the exploration targets
Candidates(a, p) ==
    LET safe == _find_safe_positions(agent_instances[a], p)
        targets == _find_exploration_targets(agent_instances[a], p)
    IN  (IF p.visible_cells[p.current_position] = HAZARD THEN {<<"hazard_avoidance", t>> : t \in Closest(safe.safe_positions, p.current_position) \cup Closest(safe.preferred_safe_moves, p.current_position)} ELSE {})
        \cup (IF p.carrying_resource THEN {<<"resource_delivery", t>> : t \in agent_instances[a].known_goals \cup {pos \in DOMAIN p.visible_cells : p.visible_cells[pos] = GOAL}}
              ELSE {<<"resource_collection", t>> : t \in agent_instances[a].known_resources \cup {pos \in DOMAIN p.visible_cells : p.visible_cells[pos] = RESOURCE}})
        \cup {<<"exploration", targets[i]>> : i \in DOMAIN targets}

\* the base utility of a goal type
BaseUtility(goal_type) == IF goal_type = "hazard_avoidance" THEN 50 ELSE IF goal_type = "resource_delivery" THEN 20 ELSE IF goal_type = "resource_collection" THEN 10 ELSE 1

\* base utility / (distance + 1) of candidate c is at least that of candidate d, seen from position from
AtLeastAsUseful(c, d, from) == BaseUtility(c[1]) * (Abs(d[2][1] - from[1]) + Abs(d[2][2] - from[2]) + 1) >= BaseUtility(d[1]) * (Abs(c[2][1] - from[1]) + Abs(c[2][2] - from[2]) + 1)

\* C24: _select_best_goal returns a candidate whose distance-adjusted utility, base utility /
\* (Manhattan distance + 1), is at least that of every generated candidate; of two
\* resource_collection candidates the strictly nearer is never passed over for the farther.
C24_BestGoalSelected ==
    [][call'.method = "_select_best_goal"
         => LET all == Candidates(call'.agent, perception)
                chosen == <<call'.selected.goal_type, call'.selected.target_position>>
            IN  IF all = {} THEN call'.selected = NoGoal
                ELSE /\ chosen \in all
                     /\ \A c \in all : AtLeastAsUseful(chosen, c, perception.current_position)
                     /\ chosen[1] = "resource_collection" => \A c \in all : c[1] = "resource_collection" => distance_to(perception.current_position, chosen[2]) <= distance_to(perception.current_position, c[2])]_vars

\* with two resources known, the goal selected is the collection of the nearer one, a step away
C24_Witness ==
    /\ call.method = "_select_best_goal"
    /\ call.selected.goal_type = "resource_collection"
    /\ distance_to(perception.current_position, call.selected.target_position) = 1
    /\ \E t \in agent_instances[call.agent].known_resources : distance_to(perception.current_position, t) = 2

\* an agent carrying a resource on a hazard has selected the escape before the delivery
C24_WitnessHazard ==
    /\ call.method = "_select_best_goal"
    /\ call.selected.goal_type = "hazard_avoidance"
    /\ perception.carrying_resource
    /\ <<"resource_delivery", <<2, 0>>>> \in Candidates(call.agent, perception)

\* with nothing to collect and away from the hazard, an exploration goal has been selected
C24_WitnessExploration ==
    /\ call.method = "_select_best_goal"
    /\ call.selected.goal_type = "exploration"
    /\ Cardinality(Candidates(call.agent, perception)) > 1

-----------------------------------------------------------------------------
(* Properties of the goal-based agent's decisions                          *)

\* the turn of an active goal-based agent
GoalTurn == Turn /\ agent_instances[idx + 1].kind = "goal"

\* the goal-based agent in turn holds a plan with steps left
PlanInProgress == agent_instances[idx + 1].current_plan # <<>> /\ agent_instances[idx + 1].plan_step_index < Len(agent_instances[idx + 1].current_plan)

\* the goal-based agent in turn holds a resource_collection plan with steps left and perceives
\* the plan's target cell as EMPTY
TargetGone ==
    /\ GoalTurn
    /\ PlanInProgress
    /\ agent_instances[idx + 1].current_goal.goal_type = "resource_collection"
    /\ agent_instances[idx + 1].current_goal.target_position \in DOMAIN perception'.visible_cells
    /\ perception'.visible_cells[agent_instances[idx + 1].current_goal.target_position] = EMPTY

\* the reasons decide_action gives for an action of the reactive fallback
ReactiveReasons == {"Reactive: Escaping hazard", "Reactive: Picking up resource", "Reactive: Dropping at goal", "Reactive: Random exploration", "Reactive: No valid moves"}

\* C25: when a goal-based agent holds a resource_collection plan with steps left and perceives
\* the plan's target cell as EMPTY, the decision is not the old plan's next step: a fresh goal
\* is selected and, when a plan for it is generated, the decision is the first step of the
\* new plan, in the same call.
C25_ReplanWhenTargetGone ==
    [][TargetGone
         => LET before == agent_instances[idx + 1]
                after == agent_instances'[idx + 1]
            IN  /\ call'.reason # "Plan Execution"
                /\ after.planning_stats.plans_generated = before.planning_stats.plans_generated + 1 => call'.reason = "New Plan"
                /\ call'.reason # "New Plan" => (call'.reason \in ReactiveReasons /\ after.planning_stats.plans_generated = before.planning_stats.plans_generated)
                /\ (call'.reason = "New Plan" /\ after.current_plan # <<>>) => (after.plan_step_index = 1 /\ after.current_plan[1].action = call'.action /\ after.current_plan # before.current_plan)]_vars

\* a goal-based agent whose collection plan lost its target to another agent has decided by a
\* new plan: two plans generated, one completed, none abandoned, nothing collected
C25_Witness ==
    /\ call.method = "apply_action"
    /\ call.reason = "New Plan"
    /\ agent_instances[call.agent].kind = "goal"
    /\ agent_instances[call.agent].planning_stats.plans_generated = 2
    /\ agent_instances[call.agent].planning_stats.plans_completed = 1
    /\ agent_instances[call.agent].planning_stats.plans_abandoned = 0
    /\ agent_instances[call.agent].current_plan = <<>>
    /\ agent_instances[call.agent].resources_collected = 0
    /\ resources = {}
    /\ \A pos \in config.resources : pos \in DOMAIN perception.visible_cells /\ perception.visible_cells[pos] = EMPTY

\* the plan of the goal-based agent in turn has steps left and fails the validity rule: its
\* resource_collection target is perceived as something else than a resource and is no known
\* resource, or it is a resource_delivery plan and the agent carries nothing
Invalidated ==
    /\ GoalTurn
    /\ PlanInProgress
    /\ \/ /\ agent_instances[idx + 1].current_goal.goal_type = "resource_collection"
          /\ agent_instances[idx + 1].current_goal.target_position \in DOMAIN perception'.visible_cells
          /\ perception'.visible_cells[agent_instances[idx + 1].current_goal.target_position] # RESOURCE
          /\ agent_instances[idx + 1].current_goal.target_position \notin agent_instances'[idx + 1].known_resources
       \/ /\ agent_instances[idx + 1].current_goal.goal_type = "resource_delivery"
          /\ ~perception'.carrying_resource

\* C26: when the validity rule invalidates a goal-based agent's plan in mid-execution, the
\* invalidation is counted and the plan discarded: plans_abandoned and replanning_events grow
\* by 1 each, and after the call current_plan and current_goal no longer hold the invalidated
\* plan, also when no new plan is produced.
C26_InvalidationCounted ==
    [][Invalidated
         => LET before == agent_instances[idx + 1]
                after == agent_instances'[idx + 1]
            IN  /\ after.planning_stats.plans_abandoned = before.planning_stats.plans_abandoned + 1
                /\ after.planning_stats.replanning_events = before.planning_stats.replanning_events + 1
                /\ after.current_plan # before.current_plan
                /\ after.current_goal # before.current_goal]_vars

\* perception p does not allow action: a move into a visible WALL or occupied cell, a PICKUP
\* off a RESOURCE cell or while carrying, a DROP off a GOAL cell or while not carrying
Infeasible(action, p) ==
    \/ /\ action \in {MOVE_NORTH, MOVE_SOUTH, MOVE_EAST, MOVE_WEST}
       /\ LET dest == <<p.current_position[1] + DIRECTION_MAPPINGS[action][1], p.current_position[2] + DIRECTION_MAPPINGS[action][2]>>
          IN  (dest \in DOMAIN p.visible_cells /\ p.visible_cells[dest] = WALL) \/ \E k \in DOMAIN p.visible_agents : p.visible_agents[k] = dest
    \/ action = PICKUP /\ (p.visible_cells[p.current_position] # RESOURCE \/ p.carrying_resource)
    \/ action = DROP /\ (p.visible_cells[p.current_position] # GOAL \/ ~p.carrying_resource)

\* the goal-based agent in turn holds a plan that passes the validity rule, and perceives that
\* the plan's next step is not feasible
NextStepInfeasible ==
    /\ GoalTurn
    /\ PlanInProgress
    /\ ~Invalidated
    /\ Infeasible(agent_instances[idx + 1].current_plan[agent_instances[idx + 1].plan_step_index + 1].action, perception')

SearchFails == GoalTurn /\ agent_instances'[idx + 1].planning_stats.path_finding_failures # agent_instances[idx + 1].planning_stats.path_finding_failures

C28_WitnessAgain ==
    /\ call.method = "apply_action"
    /\ agent_instances[call.agent].kind = "goal"
    /\ agent_instances[call.agent].planning_stats.path_finding_failures = 1
    /\ agent_instances[call.agent].planning_stats.path_finding_calls = 2
    /\ agent_instances[call.agent].planning_stats.plans_generated = 1
    /\ call.reason = "New Plan"

\* C29: every movement the goal-based agent's reactive fallback returns targets an adjacent
\* visible cell that is no wall, no hazard and not occupied by another visible agent, the
\* validity rule of the simple reflex agent's random exploration.
C29_FallbackMovesAreValid ==
    [][(GoalTurn /\ call'.reason \in ReactiveReasons /\ call'.action \in DOMAIN DIRECTION_MAPPINGS)
         => LET new_pos == Neighbour(perception'.current_position, call'.action)
            IN  /\ new_pos \in DOMAIN perception'.visible_cells
                /\ perception'.visible_cells[new_pos] \notin {WALL, HAZARD}
                /\ ~InSeq(new_pos, perception'.visible_agents)]_vars

\* an active agent is next in the iteration of a running step
TurnPending == StepRuns /\ idx < Len(agent_instances) /\ is_active(agent_instances[idx + 1])

\* every cell next to the agent perceiving p is outside the grid, a wall or occupied by
\* another agent, and the agent can neither pick up nor drop on its own cell
BoxedIn(p) ==
    /\ \A action \in DOMAIN DIRECTION_MAPPINGS :
           LET new_pos == Neighbour(p.current_position, action)
           IN  new_pos \notin DOMAIN p.visible_cells \/ p.visible_cells[new_pos] = WALL \/ InSeq(new_pos, p.visible_agents)
    /\ ~(p.visible_cells[p.current_position] = RESOURCE /\ ~p.carrying_resource)
    /\ ~(p.visible_cells[p.current_position] = GOAL /\ p.carrying_resource)

\* C30: for every agent variant decide_action returns an Action for the perception it is given,
\* never none; and when every adjacent cell is outside the grid, a wall or occupied by another
\* agent and the agent can neither pick up nor drop on its own cell, the action is WAIT.
C30_WaitWhenBoxedIn ==
    /\ [](TurnPending
            => \A pr \in {perceive(agent_instances[idx + 1], agents, resources, idx + 1)} :
                   /\ decide_action(pr.agent, pr.perception) # {}
                   /\ \A d \in decide_action(pr.agent, pr.perception) : d.action \in Action)
    /\ [][(Turn /\ BoxedIn(perception')) => call'.action = WAIT]_vars

-----------------------------------------------------------------------------
(* Construction of the agent objects: InteractiveSimulation.__init__ calls   *)
(* the constructor of the configured class with (agent_id, position); each   *)
(* subclass constructor passes these two on to BaseAgent.__init__, which has *)
(* three required parameters.  Python raises TypeError when a call leaves a  *)
(* required parameter without an argument.                                   *)

\* BaseAgent.__init__(self, agent_id, position, initial_energy) called with the positional
\* arguments args
BaseAgentInit(kind, args) ==
    IF Len(args) # 3 THEN [raised |-> TRUE, energy |-> 0]
    ELSE [raised |-> FALSE, energy |-> args[3]]

\* SimpleReflexAgent / ModelBasedReflexAgent / GoalBasedAgent.__init__(self, agent_id, position):
\* `super().__init__(agent_id, position)` comes first
SubclassInit(type, agent_id, position) == BaseAgentInit(type, <<agent_id, position>>)

\* GridWorld(config_path) is loaded and no agent object exists yet
InitConstruct ==
    \E c \in Configs :
        /\ config = c
        /\ grid_size = c.grid_size
        /\ walls = c.walls
        /\ goals = c.goals
        /\ resources = c.resources
        /\ hazards = c.hazards
        /\ agents = [i \in 1..Len(c.agents) |-> [position |-> c.agents[i].position, energy |-> c.agents[i].energy, carrying |-> FALSE, type |-> c.agents[i].type]]
        /\ step_count = 0
        /\ agent_instances = <<>>
        /\ current_step = 0
        /\ simulation_ended = FALSE
        /\ idx = 0
        /\ active_agents = 0
        /\ perception = NoPerception
        /\ returned = FALSE
        /\ call = NoCall
        /\ history = save_state(<<>>, {})

\* one iteration of `for agent_id, agent_data in agent_configs`: the constructor call and,
\* unless it raises, agent_instances.append
ConstructAgent ==
    /\ Len(agent_instances) < Len(agents)
    /\ call.reason # "TypeError"
    /\ LET a == Len(agent_instances) + 1
           r == SubclassInit(agents[a].type, a, agents[a].position)
       IN  /\ call' = [method |-> "__init__", agent |-> a, action |-> NONE, reason |-> IF r.raised THEN "TypeError" ELSE NONE]
           /\ agent_instances' = IF r.raised THEN agent_instances ELSE Append(agent_instances, CreateAgent(agents[a].type, agents[a].position, r.energy))
    /\ UNCHANGED <<envStatic, resources, agents, step_count, driverVars, perception, returned, history>>

NextConstruct == ConstructAgent

SpecConstruct == InitConstruct /\ [][NextConstruct]_vars

\* C31: every agent instance created from a configuration entry is constructed successfully
\* and starts with the energy configured for it.
C31_ConstructedWithConfiguredEnergy ==
    call.method = "__init__"
        => /\ call.reason # "TypeError"
           /\ Len(agent_instances) = call.agent
           /\ agent_instances[call.agent].energy = config.agents[call.agent].energy

\* the cost the claim gives a step of agent a onto pos: 6 for a known or visible hazard, else 1
StepCost(a, p, pos) == IF pos \in agent_instances[a].known_hazards \/ (pos \in DOMAIN p.visible_cells /\ p.visible_cells[pos] = HAZARD) THEN 6 ELSE 1

RECURSIVE PathCost(_, _, _)
PathCost(a, p, path) == IF path = <<>> THEN 0 ELSE StepCost(a, p, path[1]) + PathCost(a, p, Tail(path))

\* one round of relaxation of the costs dist over the cells of its domain
Relaxed(a, p, dist) ==
    [pos \in DOMAIN dist |->
        LET via == {dist[from] + StepCost(a, p, pos) : from \in {f \in DOMAIN dist : Abs(pos[1] - f[1]) + Abs(pos[2] - f[2]) = 1}}
        IN  IF \E c \in via : c < dist[pos] THEN CHOOSE c \in via : \A d \in via : c <= d ELSE dist[pos]]

\* the least costs of the cardinal paths from the cell of cost 0, by relaxation to the fixed point
RECURSIVE LeastCosts(_, _, _)
LeastCosts(a, p, dist) == IF Relaxed(a, p, dist) = dist THEN dist ELSE LeastCosts(a, p, Relaxed(a, p, dist))

\* the least cost of a cardinal path of agent a from start to goal over non-obstacle cells
\* (a cell not yet reached counts as more than any path cost in the window)
MinimalCost(a, p, start, goal) == LeastCosts(a, p, [pos \in ReachableFrom(a, p, {start}) |-> IF pos = start THEN 0 ELSE 6 * Cardinality(DOMAIN p.visible_cells) + 1])[goal]

\* C32: whenever find_path returns a non-empty path, the path's total cost (1 per step, 6 for
\* a step onto a known or visible hazard cell) is minimal among the cardinal paths from start
\* to goal that stay on non-obstacle cells of the perception window.
C32_PathCostMinimal ==
    [][(PathSearched /\ returned' # <<>>)
         => PathCost(call'.agent, perception, returned') = MinimalCost(call'.agent, perception, call'.start, call'.goal)]_vars

\* find_path has returned a path longer than the distance from start to goal and free of
\* hazards, where a hazard cell lies on a shortest route
C32_Witness ==
    /\ call.method = "find_path"
    /\ returned # <<>>
    /\ Len(returned) > _manhattan_distance(call.start, call.goal)
    /\ \A i \in 1..Len(returned) : returned[i] \notin hazards
    /\ \E h \in hazards \ {call.start, call.goal} : _manhattan_distance(call.start, h) + _manhattan_distance(h, call.goal) = _manhattan_distance(call.start, call.goal)

\* find_path has returned a path across a hazard cell, of cost 7 for two steps
C32_WitnessHazard ==
    /\ call.method = "find_path"
    /\ Len(returned) = 2
    /\ returned[1] \in hazards
    /\ PathCost(call.agent, perception, returned) = 7

\* C33: when all agents start on pairwise distinct cells, no two agents ever occupy the same
\* cell, whatever the mix of agent variants: every movement an agent chooses targets a cell
\* that no other agent occupies at the moment the action is applied.
C33_NoSharedCell ==
    /\ [](\A a, b \in DOMAIN agents : a # b => agents[a].position # agents[b].position)
    /\ [][(Turn /\ call'.action \in DOMAIN DIRECTION_MAPPINGS)
            => \A b \in DOMAIN agents \ {idx + 1} : agents[b].position # Neighbour(agents[idx + 1].position, call'.action)]_vars

\* an agent standing next to another agent has moved, to a cell the other does not occupy
C33_Witness ==
    /\ call.method = "apply_action"
    /\ call.action \in DOMAIN DIRECTION_MAPPINGS
    /\ \E k \in DOMAIN perception.visible_agents : _manhattan_distance(perception.visible_agents[k], perception.current_position) = 1
    /\ agents[call.agent].position = Neighbour(perception.current_position, call.action)
    /\ \A b \in DOMAIN agents \ {call.agent} : agents[b].position # agents[call.agent].position

\* a goal-based agent whose plan led onto a cell another agent had entered has moved elsewhere
C33_WitnessPlan ==
    /\ call.method = "apply_action"
    /\ call.action \in DOMAIN DIRECTION_MAPPINGS
    /\ agent_instances[call.agent].kind = "goal"
    /\ agent_instances[call.agent].planning_stats.plans_abandoned > 0
    /\ \E k \in DOMAIN perception.visible_agents : _manhattan_distance(perception.visible_agents[k], perception.current_position) = 1

\* the sum of resources_collected over the first n agents
RECURSIVE CollectedBy(_)
CollectedBy(n) == IF n = 0 THEN 0 ELSE agent_instances[n].resources_collected + CollectedBy(n - 1)

\* C34: resources are conserved: the number of cells in the environment's resources set plus
\* the sum of resources_collected over all agents always equals the initial number of
\* resources, so no resource is picked up by two agents.
C34_ResourcesConserved == Cardinality(resources) + CollectedBy(Len(agent_instances)) = Cardinality(config.resources)

\* of two agents near the only resource one has collected it and the other has not, although
\* it has acted since
C34_Witness ==
    /\ Len(agent_instances) = 2
    /\ resources = {}
    /\ Cardinality(config.resources) = 1
    /\ \E a, b \in DOMAIN agent_instances : /\ agent_instances[a].resources_collected = 1
                                           /\ agent_instances[b].resources_collected = 0
                                           /\ agent_instances[b].actions_taken > agent_instances[a].actions_taken

\* C35: for every agent, in every state reachable through apply_action, resources_collected
\* equals goals_reached plus 1 if the agent carries a resource and plus 0 otherwise; hence
\* goals_reached never exceeds resources_collected.
C35_CollectedIsDeliveredPlusCargo ==
    \A a \in DOMAIN agent_instances :
        /\ agent_instances[a].resources_collected = agent_instances[a].goals_reached + (IF agent_instances[a].carrying_resource THEN 1 ELSE 0)
        /\ agent_instances[a].goals_reached <= agent_instances[a].resources_collected

\* an agent has delivered the resource it collected: PICKUP, one move, DROP on the goal
C35_Witness ==
    /\ call.method = "apply_action"
    /\ call.action = DROP
    /\ agent_instances[call.agent].goals_reached = 1
    /\ agent_instances[call.agent].resources_collected = 1
    /\ ~agent_instances[call.agent].carrying_resource

\* an agent carries the one resource it has collected and has tried to DROP it off the goal
C35_WitnessCarrying ==
    /\ call.method = "apply_action"
    /\ call.action = DROP
    /\ agent_instances[call.agent].carrying_resource
    /\ agent_instances[call.agent].resources_collected = 1
    /\ agent_instances[call.agent].goals_reached = 0

\* C36: a simple reflex agent never chooses a movement whose destination is outside the grid,
\* a WALL cell, a HAZARD cell or a cell occupied by a visible agent; therefore its collisions
\* counter stays 0 and an agent that starts off a hazard never stands on a hazard cell.
C36_SimpleMovesAreSafe ==
    /\ [][(SimpleTurn /\ call'.action \in DOMAIN DIRECTION_MAPPINGS)
            => LET new_pos == Neighbour(perception'.current_position, call'.action)
               IN  /\ new_pos \in _valid_positions
                   /\ new_pos \in DOMAIN perception'.visible_cells
                   /\ perception'.visible_cells[new_pos] \notin {WALL, HAZARD}
                   /\ ~InSeq(new_pos, perception'.visible_agents)]_vars
    /\ [](\A a \in DOMAIN agent_instances :
              agent_instances[a].kind = "simple"
                  => /\ agent_instances[a].collisions = 0
                     /\ (config.agents[a].position \notin hazards => agents[a].position \notin hazards))

\* C37: a model-based reflex agent never chooses a movement whose destination lies outside
\* the grid (beyond the east and south edges included) or is a known or perceived wall, so
\* its collisions counter stays 0.
C37_ModelBasedMovesStayInside ==
    /\ [][(Turn /\ agent_instances[idx + 1].kind = "module" /\ call'.action \in DOMAIN DIRECTION_MAPPINGS)
            => LET new_pos == Neighbour(perception'.current_position, call'.action)
               IN  /\ new_pos \in _valid_positions
                   /\ new_pos \notin walls
                   /\ new_pos \notin agent_instances'[idx + 1].known_walls]_vars
    /\ [](\A a \in DOMAIN agent_instances : agent_instances[a].kind = "module" => agent_instances[a].collisions = 0)

\* C38: whenever a goal-based agent returns a movement taken from a plan step, the agent
\* stands on the cell from which that step was planned: the step's target_position is the
\* cell next to the agent's position in the direction of the action.  A plan is never
\* resumed after the agent has left its path: a step of a plan held from an earlier decision
\* starts where the step before it ended, or, as the first step, where the agent stands.
C38_PlanStepFromPlannedCell ==
    [][(GoalTurn /\ call'.action \in DOMAIN DIRECTION_MAPPINGS)
         => LET before == agent_instances[idx + 1]
                after == agent_instances'[idx + 1]
                here == perception'.current_position
            IN  /\ call'.reason = "Plan Execution"
                    => /\ PlanInProgress
                       /\ before.current_plan[before.plan_step_index + 1].action = call'.action
                       /\ before.current_plan[before.plan_step_index + 1].target_position = Neighbour(here, call'.action)
                       /\ before.plan_step_index > 0 => before.current_plan[before.plan_step_index].target_position = here
                /\ (call'.reason = "New Plan" /\ after.current_plan # <<>>)
                    => /\ after.current_plan[1].action = call'.action
                       /\ after.current_plan[1].target_position = Neighbour(here, call'.action)]_vars

\* C39: after every decide_action call of a goal-based agent either current_plan is empty,
\* current_goal is unset and plan_step_index is 0, or current_plan is non-empty, current_goal
\* is set and 0 <= plan_step_index < len(current_plan).
C39_PlanStateConsistent ==
    \A a \in DOMAIN agent_instances :
        agent_instances[a].kind = "goal"
            => \/ /\ agent_instances[a].current_plan = <<>>
                  /\ agent_instances[a].current_goal = NoGoal
                  /\ agent_instances[a].plan_step_index = 0
               \/ /\ agent_instances[a].current_plan # <<>>
                  /\ agent_instances[a].current_goal # NoGoal
                  /\ 0 <= agent_instances[a].plan_step_index
                  /\ agent_instances[a].plan_step_index < Len(agent_instances[a].current_plan)

\* a goal-based agent has executed a step of its plan that is not the last: steps are left
C39_Witness ==
    /\ call.method = "apply_action"
    /\ call.reason = "Plan Execution"
    /\ agent_instances[call.agent].current_plan # <<>>
    /\ agent_instances[call.agent].plan_step_index > 1
    /\ agent_instances[call.agent].plan_step_index < Len(agent_instances[call.agent].current_plan)

\* a goal-based agent has executed the last step of a plan of several steps and holds no plan
C39_WitnessCompleted ==
    /\ call.method = "apply_action"
    /\ call.reason = "Plan Execution"
    /\ agent_instances[call.agent].planning_stats.plans_completed > 0
    /\ agent_instances[call.agent].current_plan = <<>>
    /\ agent_instances[call.agent].current_goal = NoGoal

\* C40: for every agent variant, in every reachable state, energy_consumed equals the agent's
\* initial energy minus its current energy, so that energy_efficiency (from energy_consumed)
\* and energy_utilization (from energy) describe the same amount.
C40_ConsumedIsSpent ==
    \A a \in DOMAIN agent_instances : agent_instances[a].energy_consumed = config.agents[a].energy - agent_instances[a].energy

====
